---- MODULE Spec2Model ----
(***************************************************************************)
(* A model of yang-lib: the YANG lexer (Lexer.getToken / getSingleToken /  *)
(* trimSpaces), the untyped statement tree (UnprocessedStatement.Parse,    *)
(* add, the take primitives, takeAll) and the typed statement parsers      *)
(* built on them.                                                          *)
(*                                                                         *)
(* A JavaScript string is a sequence of one-character strings.  An         *)
(* optional value (T | undefined, T | null) is a sequence of length at     *)
(* most one: None is undefined/null, Some(v) is the value v.               *)
(***************************************************************************)
EXTENDS Integers, Sequences, FiniteSets, TLC

VARIABLES
    doc,        \* the source text as written: a sequence of lexical pieces
    lexer,      \* the Lexer object: input, pos, col, row, saved_token
    frame,      \* the locals of a running getToken: concat_str, str, string_parsed
    pc,         \* "idle": no call is running; "loop": getToken is in its for(;;)
    out,        \* what the getToken calls made so far gave back, in order
    written,    \* the statement as written in the source text, for Parse
    tree,       \* what UnprocessedStatement.Parse gave back, once it ran
    unp,        \* the UnprocessedStatement under extraction
    call,       \* the last extraction call: its name, its arguments, the node before it
    outcome     \* what that call gave back: a value or an error

vars == <<doc, lexer, frame, pc, out, written, tree, unp, call, outcome>>

None == <<>>
Some(v) == <<v>>

-----------------------------------------------------------------------------
(* Characters and string helpers (String.prototype of the source).         *)

NL == "\n"
TAB == "\t"
SP == " "
DQ == "\""
SQ == "'"
BS == "\\"

\* c.trim() == "" for a one-character string c
IsWhiteSpace(c) == c \in {SP, TAB, NL}

\* s.slice(from): from is 0-based; past the end gives ""
Slice(s, from) == SubSeq(s, from + 1, Len(s))

\* s.slice(from, to): 0-based, to exclusive; to <= from gives ""
Slice2(s, from, to) == SubSeq(s, from + 1, IF to > Len(s) THEN Len(s) ELSE to)

\* s.startsWith(p)
StartsWith(s, p) == Len(s) >= Len(p) /\ SubSeq(s, 1, Len(p)) = p

\* s.indexOf(p): the 0-based index of the first occurrence of p, -1 without one
IndexOf(s, p) ==
    LET hits == {i \in 0..(Len(s) - Len(p)) : SubSeq(s, i + 1, i + Len(p)) = p}
    IN  IF hits = {} THEN -1 ELSE CHOOSE i \in hits : \A j \in hits : i <= j

\* s.split("\n").length - 1: the number of newlines in s
NewLines(s) == Cardinality({i \in 1..Len(s) : s[i] = NL})

\* lines[lines.length - 1].length for lines = s.split("\n")
LastLineLength(s) ==
    LET nls == {i \in 1..Len(s) : s[i] = NL}
    IN  IF nls = {} THEN Len(s)
        ELSE Len(s) - (CHOOSE i \in nls : \A j \in nls : j <= i)

\* s.split("\n"): the lines of s, at least one
RECURSIVE SplitLines(_)
SplitLines(s) ==
    LET k == IndexOf(s, <<NL>>)
    IN  IF k = -1 THEN <<s>>
        ELSE <<Slice2(s, 0, k)>> \o SplitLines(Slice(s, k + 1))

\* lines.join("\n")
RECURSIVE JoinLines(_)
JoinLines(lines) ==
    IF Len(lines) = 0 THEN <<>>
    ELSE IF Len(lines) = 1 THEN lines[1]
    ELSE lines[1] \o <<NL>> \o JoinLines(Tail(lines))

\* " ".repeat(n)
RECURSIVE Spaces(_)
Spaces(n) == IF n <= 0 THEN <<>> ELSE <<SP>> \o Spaces(n - 1)

\* s.trimEnd()
RECURSIVE TrimEnd(_)
TrimEnd(s) ==
    IF Len(s) > 0 /\ IsWhiteSpace(s[Len(s)]) THEN TrimEnd(SubSeq(s, 1, Len(s) - 1))
    ELSE s

\* the sequences of at most n elements of S
SeqsUpTo(S, n) == UNION {[1..k -> S] : k \in 0..n}

\* the concatenation of a sequence of strings
RECURSIVE Flat(_)
Flat(ss) == IF Len(ss) = 0 THEN <<>> ELSE Head(ss) \o Flat(Tail(ss))

-----------------------------------------------------------------------------
(* Tokens.  A LexerError is a value too: getToken returns some and throws  *)
(* others.                                                                 *)

Tok(type, content) == [type |-> type, content |-> content, msg |-> ""]

PlusToken == Tok("PlusToken", <<>>)
CommentToken == Tok("CommentToken", <<>>)
WhiteSpaceToken == Tok("WhiteSpaceToken", <<>>)
QuotedStringToken(content) == Tok("QuotedStringToken", content)
BlockBeginToken == Tok("BlockBeginToken", <<>>)
BlockEndToken == Tok("BlockEndToken", <<>>)
StringToken(content) == Tok("StringToken", content)
StatementEndToken == Tok("StatementEndToken", <<>>)
EndOfInputToken == Tok("EndOfInputToken", <<>>)
LexerError(msg) == [type |-> "LexerError", content |-> <<>>, msg |-> msg]
\* not of the source: what the runtime throws on undefined.trim()
TypeError == [type |-> "TypeError", content |-> <<>>, msg |-> "undefined.trim"]

\* new Lexer(input)
NewLexer(input) ==
    [input |-> input, pos |-> 0, col |-> 0, row |-> 0, saved_token |-> None]

\* Lexer.len()
len(lx) == Len(lx.input) - lx.pos

-----------------------------------------------------------------------------
(* trimSpaces(input, indent)                                               *)

\* the for loop over one line: the index of its first character that is
\* neither a space nor a tab, and the width counted up to there
RECURSIVE CountIndent(_, _, _)
CountIndent(line, i, count) ==
    IF i >= Len(line) THEN [i |-> i, count |-> count]
    ELSE IF line[i + 1] = SP THEN CountIndent(line, i + 1, count + 1)
    ELSE IF line[i + 1] = TAB THEN CountIndent(line, i + 1, count + 8)
    ELSE [i |-> i, count |-> count]

\* the forEach body: one line of the result
TrimLine(line, indent) ==
    LET w == CountIndent(line, 0, 0)
    IN  (IF w.count > indent THEN Spaces(w.count - indent) ELSE <<>>)
            \o TrimEnd(Slice(line, w.i))

trimSpaces(input, indent) ==
    LET lines == SplitLines(input)
    IN  JoinLines([k \in 1..Len(lines) |-> TrimLine(lines[k], indent)])

-----------------------------------------------------------------------------
(* Lexer.getSingleToken: one raw lexical unit.  The result holds the lexer *)
(* afterwards, the unit, and whether the unit was thrown or returned.      *)

Returned(lx, tok) == [lx |-> lx, tok |-> tok, thrown |-> FALSE]
Thrown(lx, tok) == [lx |-> lx, tok |-> tok, thrown |-> TRUE]

\* "find first non-whitespace character": the length of the whitespace run
RECURSIVE WhiteSpaceRun(_, _)
WhiteSpaceRun(cs, i) ==
    IF i < Len(cs) /\ IsWhiteSpace(cs[i + 1]) THEN WhiteSpaceRun(cs, i + 1) ELSE i

\* the branch of a whitespace character
ScanWhiteSpace(lx, cs) ==
    LET i == WhiteSpaceRun(cs, 0)
        run == Slice2(cs, 0, i)
    IN  Returned([lx EXCEPT !.pos = @ + i,
                            !.col = @ + LastLineLength(run),
                            !.row = @ + NewLines(run)],
                 WhiteSpaceToken)

\* the branch of "//"
ScanLineComment(lx, cs) ==
    LET comment_str == SplitLines(cs)[1]
    IN  Returned([lx EXCEPT !.pos = @ + Len(comment_str) + 1,
                            !.col = 0,
                            !.row = @ + 1],
                 CommentToken)

\* the branch of "/*"
ScanBlockComment(lx, cs) ==
    LET end_pos == IndexOf(cs, <<"*", "/">>)
        block_comment == Slice2(cs, 0, end_pos + 2)
    IN  IF end_pos = -1 THEN Returned(lx, LexerError("Missing end of block comment"))
        ELSE Returned([lx EXCEPT !.pos = @ + Len(block_comment),
                                 !.col = LastLineLength(block_comment),
                                 !.row = @ + NewLines(block_comment)],
                      CommentToken)

\* the branches of ";", "{", "}" and "+"
ScanSymbol(lx, tok) ==
    Returned([lx EXCEPT !.pos = @ + 1, !.col = @ + 1], tok)

\* the branch of "'": indexOf starts at the opening quote, pos is not advanced
ScanSingleQuoted(lx, cs) ==
    LET end_pos == IndexOf(cs, <<SQ>>)
        quoted == Slice2(cs, 0, end_pos + 1)
    IN  IF end_pos = -1 THEN Returned(lx, LexerError("Missing end of quoted string"))
        ELSE Returned([lx EXCEPT !.col = LastLineLength(quoted),
                                 !.row = @ + NewLines(quoted)],
                      QuotedStringToken(Slice2(quoted, 1, Len(quoted) - 1)))

\* the for (; ; i++) loop of the branch of '"': the index of the closing quote and
\* the escaped string, or the error thrown.  After a backslash only i++ runs, so the
\* character after it is looked at again.
RECURSIVE ScanEscapes(_, _, _)
ScanEscapes(cs, i, escaped_string) ==
    IF i >= Len(cs)
    THEN [err |-> "expected ending symbol for double quoted string", i |-> i,
          escaped_string |-> escaped_string]
    ELSE IF cs[i + 1] = BS
    THEN LET c == IF i + 1 < Len(cs) THEN Some(cs[i + 2]) ELSE None
         IN  IF c = Some("n") THEN ScanEscapes(cs, i + 1, escaped_string \o <<NL>>)
             ELSE IF c = Some("t") THEN ScanEscapes(cs, i + 1, escaped_string \o <<TAB>>)
             ELSE IF c = Some(DQ) THEN ScanEscapes(cs, i + 1, escaped_string \o <<DQ>>)
             ELSE IF c = Some(BS) THEN ScanEscapes(cs, i + 1, escaped_string \o <<BS>>)
             ELSE [err |-> "Invalid escaped character", i |-> i,
                   escaped_string |-> escaped_string]
    ELSE IF cs[i + 1] = DQ
    THEN [err |-> "", i |-> i, escaped_string |-> escaped_string]
    ELSE ScanEscapes(cs, i + 1, escaped_string \o <<cs[i + 1]>>)

\* the branch of '"' after its loop: e is where the loop ended
QuotedUpTo(lx, cs, e) ==
    IF e.err # "" THEN Thrown(lx, LexerError(e.err))
    ELSE Returned([lx EXCEPT !.pos = @ + e.i + 1,
                             !.col = LastLineLength(Slice2(cs, 0, e.i + 1)),
                             !.row = @ + NewLines(Slice2(cs, 0, e.i + 1))],
                  QuotedStringToken(trimSpaces(e.escaped_string, lx.col + 1)))

\* the branch of '"'
ScanDoubleQuoted(lx, cs) == QuotedUpTo(lx, cs, ScanEscapes(cs, 1, <<>>))

\* the for loop of the unquoted string: the index at which it ends
RECURSIVE UnquotedEnd(_, _)
UnquotedEnd(cs, i) ==
    IF i >= Len(cs) THEN i
    ELSE IF IsWhiteSpace(cs[i + 1]) \/ cs[i + 1] \in {DQ, SQ, ";", "{", "}"} THEN i
    ELSE IF i < Len(cs) - 1
            /\ Slice2(cs, i, i + 2) \in {<<"/", "/">>, <<"/", "*">>} THEN i
    ELSE UnquotedEnd(cs, i + 1)

\* the last branch: an unquoted string
ScanUnquoted(lx, cs) ==
    LET i == UnquotedEnd(cs, 0)
    IN  Returned([lx EXCEPT !.pos = @ + i, !.col = @ + i],
                 StringToken(Slice2(cs, 0, i)))

getSingleToken(lx) ==
    LET current_string == Slice(lx.input, lx.pos)
    IN  IF current_string = <<>> THEN Thrown(lx, TypeError)
        ELSE IF IsWhiteSpace(current_string[1]) THEN ScanWhiteSpace(lx, current_string)
        ELSE IF StartsWith(current_string, <<"/", "/">>)
        THEN ScanLineComment(lx, current_string)
        ELSE IF StartsWith(current_string, <<"/", "*">>)
        THEN ScanBlockComment(lx, current_string)
        ELSE IF current_string[1] = ";" THEN ScanSymbol(lx, StatementEndToken)
        ELSE IF current_string[1] = "{" THEN ScanSymbol(lx, BlockBeginToken)
        ELSE IF current_string[1] = "}" THEN ScanSymbol(lx, BlockEndToken)
        ELSE IF current_string[1] = "+" THEN ScanSymbol(lx, PlusToken)
        ELSE IF current_string[1] = SQ THEN ScanSingleQuoted(lx, current_string)
        ELSE IF current_string[1] = DQ THEN ScanDoubleQuoted(lx, current_string)
        ELSE ScanUnquoted(lx, current_string)

-----------------------------------------------------------------------------
(* Lexer.getToken.  GetTokenEnter is the code before the for (;;), and     *)
(* GetTokenIter one pass through its body; each gives the lexer and the    *)
(* locals afterwards and, when the call ends there, what it gives back.    *)

NewFrame == [concat_str |-> FALSE, str |-> <<>>, string_parsed |-> FALSE]

Continue(lx, fr) == [lx |-> lx, frame |-> fr, done |-> FALSE, thrown |-> FALSE,
                     tok |-> EndOfInputToken]
Return(lx, fr, tok) == [lx |-> lx, frame |-> fr, done |-> TRUE, thrown |-> FALSE,
                        tok |-> tok]
Throw(lx, fr, tok) == [lx |-> lx, frame |-> fr, done |-> TRUE, thrown |-> TRUE,
                       tok |-> tok]

\* saveToken(t)
saveToken(lx, t) == [lx EXCEPT !.saved_token = Some(t)]

\* if (this.saved_token != null) { ... return token }
GetTokenEnter(lx) ==
    IF lx.saved_token # None
    THEN Return([lx EXCEPT !.saved_token = None], NewFrame, lx.saved_token[1])
    ELSE Continue(lx, NewFrame)

\* if (this.len() == 0) { ... }
AtEndOfInput(lx, fr) ==
    IF fr.string_parsed THEN Return(lx, fr, StringToken(fr.str))
    ELSE IF fr.concat_str THEN Return(lx, fr, LexerError("eof after + symbol"))
    ELSE Return(lx, fr, EndOfInputToken)

\* case PlusToken
OnPlus(lx, fr) ==
    IF fr.concat_str
    THEN Return(lx, fr, LexerError("unexpected + symbol after + symbol"))
    ELSE Continue(lx, [fr EXCEPT !.concat_str = TRUE])

\* case QuotedStringToken
OnQuotedString(lx, fr, token) ==
    IF ~fr.concat_str /\ Len(fr.str) > 0
    THEN Return(saveToken(lx, token), fr, StringToken(token.content))
    ELSE Continue(lx, [str |-> fr.str \o token.content,
                       string_parsed |-> TRUE,
                       concat_str |-> FALSE])

\* default
OnOther(lx, fr, token) ==
    IF fr.concat_str
    THEN Return(lx, fr, LexerError("expected quoted string after + symbol"))
    ELSE IF fr.string_parsed THEN Return(saveToken(lx, token), fr, StringToken(fr.str))
    ELSE Return(lx, fr, token)

\* switch (token.constructor), g being what getSingleToken gave
OnToken(g, fr) ==
    IF g.thrown THEN Throw(g.lx, fr, g.tok)
    ELSE IF g.tok.type \in {"WhiteSpaceToken", "CommentToken"} THEN Continue(g.lx, fr)
    ELSE IF g.tok.type = "PlusToken" THEN OnPlus(g.lx, fr)
    ELSE IF g.tok.type = "QuotedStringToken" THEN OnQuotedString(g.lx, fr, g.tok)
    ELSE OnOther(g.lx, fr, g.tok)

GetTokenIter(lx, fr) ==
    IF len(lx) = 0 THEN AtEndOfInput(lx, fr)
    ELSE OnToken(getSingleToken(lx), fr)


-----------------------------------------------------------------------------
(* The caller of the lexer: it makes getToken calls one after the other    *)
(* and keeps what each gave back.                                          *)

\* the most getToken calls the caller makes on one input
MaxCalls == 5

Result(r) == [thrown |-> r.thrown, tok |-> r.tok]

\* the lexer and the locals after a part of getToken; a call that ended gave a result
Advance(r) ==
    /\ lexer' = r.lx
    /\ frame' = r.frame
    /\ pc' = IF r.done THEN "idle" ELSE "loop"
    /\ out' = IF r.done THEN Append(out, Result(r)) ELSE out

\* a getToken call starts: the code before the loop
GetTokenCall ==
    /\ pc = "idle"
    /\ Len(out) < MaxCalls
    /\ Advance(GetTokenEnter(lexer))
    /\ UNCHANGED <<doc, written, tree, unp, call, outcome>>

\* one pass through the loop of the running getToken call
GetTokenStep ==
    /\ pc = "loop"
    /\ Advance(GetTokenIter(lexer, frame))
    /\ UNCHANGED <<doc, written, tree, unp, call, outcome>>

LexNext == GetTokenCall \/ GetTokenStep

-----------------------------------------------------------------------------
(* The texts the caller of the lexer hands to new Lexer(input).  A text is *)
(* written as a sequence of pieces: words, symbols, whitespace, comments,  *)
(* quoted strings.  written keeps the pieces, doc is the text they make.   *)

\* the most pieces of a text of words and symbols, the most quoted strings of a
\* chain, the most pieces after a "+", the most pieces between two double quotes
MaxPieces == 3
MaxFragments == 3
MaxTail == 2
MaxBody == 2

TxtA == <<"a">>
TxtB == <<"b">>
TxtC == <<"c">>
TxtD == <<"d">>
TxtV == <<"v">>
TxtAB == <<"a", "b">>
TxtMinElements == <<"m", "i", "n", "-", "e", "l", "e", "m", "e", "n", "t", "s">>
TxtPlus32 == <<"+", "3", "2">>
TxtPlusX == <<"+", "x">>
LineComment == <<"/", "/", "x", NL>>
LineCommentAtEnd == <<"/", "/", "z">>
BlockComment == <<"/", "*", "y", "*", "/">>

\* words, symbols, whitespace and comments
WordPieces == {TxtAB, TxtC, TxtMinElements}
PlusWordPieces == {TxtPlus32, TxtPlusX}
SymbolPieces == {<<";">>, <<"{">>, <<"}">>}

\* no two words of the text touch
WordsApart(d) == \A i \in 1..(Len(d) - 1) : ~(d[i] \in WordPieces /\ d[i + 1] \in WordPieces)

\* texts of words and symbols between whitespace and comments; a line comment
\* without its newline can only end the text
WordDocs ==
    LET inner == {d \in SeqsUpTo({TxtAB} \cup SymbolPieces
                                  \cup {<<SP>>, <<NL>>, LineComment, BlockComment},
                                 MaxPieces) : WordsApart(d)}
    IN  inner \cup {Append(d, LineCommentAtEnd) : d \in {e \in inner : Len(e) < MaxPieces}}

\* the tokens a text of words and symbols is written to give, in order
ExpectedTokens(d) ==
    LET tokens[i \in 0..Len(d)] ==
            IF i = 0 THEN <<>>
            ELSE IF d[i] \in WordPieces \cup PlusWordPieces
            THEN Append(tokens[i - 1], StringToken(d[i]))
            ELSE IF d[i] = <<";">> THEN Append(tokens[i - 1], StatementEndToken)
            ELSE IF d[i] = <<"{">> THEN Append(tokens[i - 1], BlockBeginToken)
            ELSE IF d[i] = <<"}">> THEN Append(tokens[i - 1], BlockEndToken)
            ELSE tokens[i - 1]
    IN  tokens[Len(d)]

\* quoted strings and the "+" between two of them
QuotedA == <<DQ, "a", DQ>>
QuotedEmpty == <<DQ, DQ>>
QuotedD == <<SQ, "d", SQ>>
Fragments == {QuotedA, QuotedEmpty, QuotedD}
DoubleQuotedFragments == {QuotedA, QuotedEmpty}
Separators == {<<"+">>, <<SP, "+", SP>>, BlockComment \o <<"+", NL>>}

\* the characters between the quotes of a quoted string
ContentOf(q) == SubSeq(q, 2, Len(q) - 1)

\* the chains q1 + q2 + ... + qn over a set of quoted strings
ChainsOf(fragments) ==
    UNION { { [i \in 1..(2 * n - 1) |-> IF i % 2 = 1 THEN f[(i + 1) \div 2] ELSE sep[i \div 2]] :
                f \in [1..n -> fragments], sep \in [1..(n - 1) -> Separators] } :
            n \in 1..MaxFragments }
ChainDocs == ChainsOf(Fragments)

\* the contents of the quoted strings of a chain, joined in order
Joined(d) ==
    LET joined[i \in 0..Len(d)] ==
            IF i = 0 THEN <<>>
            ELSE IF i % 2 = 1 THEN joined[i - 1] \o ContentOf(d[i])
            ELSE joined[i - 1]
    IN  joined[Len(d)]

\* "\n"+++++""+""+
CrazyPlusDoc ==
    << <<DQ, BS, "n", DQ>>, <<"+">>, <<"+">>, <<"+">>, <<"+">>, <<"+">>,
       QuotedEmpty, <<"+">>, QuotedEmpty, <<"+">> >>

\* texts with a "+" that no quoted string follows: nothing or a quoted string,
\* the "+", then whitespace, comments and at most a "+", a word or a symbol first
PlusDocs ==
    { pre \o << <<"+">> >> \o tail :
        pre \in {<<>>, <<QuotedA>>, <<QuotedEmpty>>, <<QuotedA, <<SP>>>>},
        tail \in SeqsUpTo({<<SP>>, BlockComment, <<"+">>, TxtC, <<";">>}, MaxTail) }
    \cup {CrazyPlusDoc}

\* texts with a word that begins with "+"
PlusWordDocs ==
    { << w, <<SP>>, pw, <<";">> >> : w \in {TxtMinElements, TxtC}, pw \in PlusWordPieces }
    \cup { << pw, <<";">> >> : pw \in PlusWordPieces }

\* what stands between the two quotes of a double-quoted string: plain characters
\* and backslash escapes
ValidEscapes == {<<BS, "n">>, <<BS, "t">>, <<BS, DQ>>, <<BS, BS>>}
BodyPieces == {TxtA, TxtB, <<BS, "x">>} \cup ValidEscapes
EscapeDocs ==
    { << <<DQ>> >> \o body \o << <<DQ>> >> : body \in SeqsUpTo(BodyPieces, MaxBody) }

\* the one character an escape stands for; a plain character stands for itself
Unescaped(p) ==
    IF p = <<BS, "n">> THEN <<NL>>
    ELSE IF p = <<BS, "t">> THEN <<TAB>>
    ELSE IF p = <<BS, DQ>> THEN <<DQ>>
    ELSE IF p = <<BS, BS>> THEN <<BS>>
    ELSE p

\* the string between the quotes, every piece replaced by what it stands for
UnescapedBody(d) ==
    Flat([i \in 1..(Len(d) - 2) |-> Unescaped(d[i + 1])])

\* single-quoted strings, closed and not closed, and what may follow one
QuotedBackslashN == <<SQ, BS, "n", SQ>>
QuotedNothing == <<SQ, SQ>>
QuotedDoubleQuote == <<SQ, DQ, SQ>>
ClosedSingleQuoted == {QuotedD, QuotedBackslashN, QuotedNothing, QuotedDoubleQuote}
OpenSingleQuoted == {<<SQ, "d">>, <<SQ>>, <<SQ, BS, "n">>}
SingleQuotedDocs ==
    { <<q>> \o tail : q \in ClosedSingleQuoted \cup OpenSingleQuoted,
                      tail \in {<<>>, << <<";">> >>, << <<SP>>, TxtC >>} }

\* the most spaces that indent the second line of a double-quoted string
MaxIndent == 4

\* double-quoted strings of two lines, the second line indented by spaces and tabs
\* and ended by spaces or not
Indents == {Spaces(n) : n \in 0..MaxIndent} \cup {<<TAB>>, <<SP, TAB>>, <<TAB, SP>>}
MultiLineMT == <<"/", "*", "y", NL, "y", "y", "*", "/">>
TwoLines(indent, rest) == <<DQ, "m", NL>> \o indent \o rest \o <<DQ>>
TwoLineStrings ==
    {TwoLines(indent, rest) : indent \in Indents, rest \in {<<"t">>, <<"t", SP>>}}

\* what stands before the opening quote: nothing, spaces, a word, a comment, on
\* the line of the quote or on the lines before it
BeforeQuote ==
    { <<>>, << <<SP, SP>> >>, << TxtAB, <<SP>> >>, << TxtAB, <<NL>> >>,
      << TxtAB, <<NL, SP, SP>> >>, << BlockComment, <<SP>> >>,
      << <<SP>>, BlockComment >>, << MultiLineMT, <<SP>> >>,
      << LineComment, <<SP>> >> }
IndentDocs == { pre \o <<q>> : pre \in BeforeQuote, q \in TwoLineStrings }

\* double-quoted strings of nothing, of whitespace only, and of lines that end in
\* whitespace, at the start of the text and after a word
WhiteSpaceOnly == {<<>>, <<SP>>, <<SP, SP>>, <<TAB>>}
WhiteStrings == { <<DQ>> \o ws \o <<DQ>> : ws \in WhiteSpaceOnly }
TrailingStrings ==
    { <<DQ>> \o first \o <<NL>> \o second \o <<DQ>> :
        first \in {<<"a">>, <<"a", SP>>, <<"a", TAB, SP>>},
        second \in {<<"b">>, <<"b", SP, SP>>, <<SP, SP, SP>>, <<>>} }
TrailingDocs ==
    { pre \o <<q>> : pre \in {<<>>, << TxtAB, <<SP>> >>},
                     q \in WhiteStrings \cup TrailingStrings }

\* a quoted string, or a chain of two, and then the quoted string "b" with no
\* "+" before it
QuotedB == <<DQ, "b", DQ>>
AdjacentDocs ==
    { first \o gap \o <<QuotedB>> \o tail :
        first \in { <<QuotedA>>, <<QuotedEmpty>>, <<QuotedEmpty, <<"+">>, QuotedA>> },
        gap \in { <<>>, << <<SP>> >>, << <<NL>> >> },
        tail \in { <<>>, << <<";">> >> } }

\* double-quoted strings whose first line begins with whitespace, at the start
\* of the text and after a word
LeadingWhiteSpace == { <<SP>>, <<SP, SP>>, <<TAB>>, <<SP, SP, SP, SP>>, <<SP, TAB>> }
LeadingStrings ==
    { <<DQ>> \o lead \o <<"a">> \o rest \o <<DQ>> :
        lead \in LeadingWhiteSpace, rest \in { <<>>, <<NL, "b">> } }
LeadingDocs ==
    { pre \o <<q>> : pre \in {<<>>, << TxtAB, <<SP>> >>}, q \in LeadingStrings }

LexDocs ==
    WordDocs \cup ChainDocs \cup PlusDocs \cup PlusWordDocs \cup EscapeDocs
        \cup SingleQuotedDocs \cup IndentDocs \cup TrailingDocs \cup AdjacentDocs
        \cup LeadingDocs

\* new Lexer(text), before any call
LexInit ==
    /\ written \in {Some(d) : d \in LexDocs}
    /\ doc = Flat(written[1])
    /\ lexer = NewLexer(doc)
    /\ frame = NewFrame
    /\ pc = "idle"
    /\ out = <<>>
    /\ tree = None
    /\ unp = None
    /\ call = None
    /\ outcome = None

LexSpec == LexInit /\ [][LexNext]_vars

\* the texts on which the progress of the lexer is followed: words, symbols,
\* whitespace and comments, single-quoted strings, and plain double-quoted ones
LiveDocs == WordDocs \cup PlusWordDocs \cup SingleQuotedDocs \cup AdjacentDocs

LiveInit == LexInit /\ written[1] \in LiveDocs

\* the lexer under its scheduling: the loop of a running getToken call goes on
\* pass after pass, and the caller goes on calling
LexFairSpec ==
    LiveInit /\ [][LexNext]_vars /\ WF_vars(GetTokenStep) /\ WF_vars(GetTokenCall)


-----------------------------------------------------------------------------
(* UnprocessedStatement: the untyped tree node.  sub_statements is the Map *)
(* of the source, a function from keys to sequences of nodes.              *)

\* new Identifier(content)
Identifier(content) == [content |-> content]

\* new UnprocessedStatement(identifier, prefix, argument)
UnprocessedStatement(identifier, prefix, argument) ==
    [sub_statements |-> <<>>, identifier |-> identifier,
     prefix |-> prefix, argument |-> argument]

\* Map.get, Map.set, Map.delete, Map.size
MapGet(m, key) == IF key \in DOMAIN m THEN Some(m[key]) ELSE None
MapSet(m, key, v) == [k \in (DOMAIN m) \cup {key} |-> IF k = key THEN v ELSE m[k]]
MapDelete(m, key) == [k \in (DOMAIN m) \ {key} |-> m[k]]
MapSize(m) == Cardinality(DOMAIN m)

\* prefix ? [identifier, prefix].join(":") : identifier
\* (undefined and "" are both falsy)
KeyOf(identifier, prefix) ==
    IF prefix # None /\ prefix[1] # <<>> THEN identifier \o <<":">> \o prefix[1]
    ELSE identifier

\* this.add(unprocessed_stmt)
add(this, unprocessed_stmt) ==
    LET key == KeyOf(unprocessed_stmt.identifier.content, unprocessed_stmt.prefix)
        stmts == MapGet(this.sub_statements, key)
    IN  [this EXCEPT !.sub_statements =
            IF stmts # None THEN MapSet(@, key, Append(stmts[1], unprocessed_stmt))
            ELSE MapSet(@, key, <<unprocessed_stmt>>)]

(* What an extraction call gives back: the node afterwards, the error      *)
(* thrown ("" for none), its message, and the value returned.              *)
Ok(this, value) == [this |-> this, error |-> "", msg |-> "", value |-> value]
ParserError(this, msg) ==
    [this |-> this, error |-> "ParserError", msg |-> msg, value |-> None]

\* the argument read and left on the node
ArgumentKept(this) ==
    IF this.argument = None \/ this.argument[1] = <<>>
    THEN [this |-> this, error |-> "ParserError", msg |-> "argument is mandatory",
          value |-> None]
    ELSE [this |-> this, error |-> "", msg |-> "", value |-> this.argument[1]]

\* this.argumentOrError()
argumentOrError(this) ==
    IF this.argument = None \/ this.argument[1] = <<>>
    THEN ParserError(this, "argument is mandatory")
    ELSE Ok([this EXCEPT !.argument = None], this.argument[1])

\* a take that checks no cardinality: the key is removed and the first child, if
\* there is one, comes back
takeFirstUnchecked(this, identifier, prefix) ==
    LET key == KeyOf(identifier, prefix)
        stmts == MapGet(this.sub_statements, key)
    IN  Ok([this EXCEPT !.sub_statements = MapDelete(@, key)],
           IF stmts = None \/ Len(stmts[1]) = 0 THEN None ELSE <<stmts[1][1]>>)

\* a take that checks no cardinality: the key is removed and all its children
\* come back
takeEveryUnchecked(this, identifier, prefix) ==
    LET key == KeyOf(identifier, prefix)
        stmts == MapGet(this.sub_statements, key)
    IN  Ok([this EXCEPT !.sub_statements = MapDelete(@, key)],
           IF stmts = None THEN <<>> ELSE stmts[1])

\* a closing check that accepts every node
ensureNothing(this) == Ok(this, None)

\* this.takeOne(identifier, prefix)
takeOne(this, identifier, prefix) ==
    LET key == KeyOf(identifier, prefix)
        stmts == MapGet(this.sub_statements, key)
    IN  IF stmts = None \/ Len(stmts[1]) = 0 \/ Len(stmts[1]) > 1
        THEN ParserError(this, "cardinality error: there should be 1")
        ELSE Ok([this EXCEPT !.sub_statements = MapDelete(@, key)], <<stmts[1][1]>>)

\* this.takeOptional(identifier, prefix): undefined is the empty sequence
takeOptional(this, identifier, prefix) ==
    LET key == KeyOf(identifier, prefix)
        stmts == MapGet(this.sub_statements, key)
    IN  IF stmts # None /\ Len(stmts[1]) > 1
        THEN ParserError(this, "cardinality error: there should be 0..1")
        ELSE Ok([this EXCEPT !.sub_statements = MapDelete(@, key)],
                IF stmts = None THEN None
                ELSE IF Len(stmts[1]) = 0 THEN None ELSE <<stmts[1][1]>>)

\* this.takeOneOrMore(identifier, prefix)
takeOneOrMore(this, identifier, prefix) ==
    LET key == KeyOf(identifier, prefix)
        stmts == MapGet(this.sub_statements, key)
    IN  IF stmts = None \/ Len(stmts[1]) = 0
        THEN ParserError(this, "cardinality error: there should be 1..n")
        ELSE Ok([this EXCEPT !.sub_statements = MapDelete(@, key)], stmts[1])

\* this.takeZeroOrMore(identifier, prefix)
takeZeroOrMore(this, idenfifier, prefix) ==
    LET key == KeyOf(idenfifier, prefix)
        stmts == MapGet(this.sub_statements, key)
    IN  Ok([this EXCEPT !.sub_statements = MapDelete(@, key)],
           IF stmts = None THEN <<>> ELSE stmts[1])

\* this.ensureEmpty()
ensureEmpty(this) ==
    IF MapSize(this.sub_statements) > 0
    THEN ParserError(this, "Found unknown substatements")
    ELSE IF this.argument # None
    THEN ParserError(this, "unexpected argument entry for substatement")
    ELSE Ok(this, None)

\* this.takeArgumentOrError(ensure_no_substatements): argumentOrError, and with
\* EnsureNoSubstatements.Set the node must hold no substatement at all
takeArgumentOrError(this, ensure_no_substatements) ==
    LET a == argumentOrError(this)
    IN  IF a.error # "" THEN a
        ELSE IF ensure_no_substatements /\ MapSize(this.sub_statements) > 0
        THEN ParserError(this, "Found unknown substatements")
        ELSE a


-----------------------------------------------------------------------------
(* The keywords and argument texts of the statements.                      *)

KwLeaf == <<"l", "e", "a", "f">>
KwType == <<"t", "y", "p", "e">>
KwMust == <<"m", "u", "s", "t">>
KwWhen == <<"w", "h", "e", "n">>
KwStatus == <<"s", "t", "a", "t", "u", "s">>
KwFake == <<"f", "a", "k", "e">>
KwDescription == <<"d", "e", "s", "c", "r", "i", "p", "t", "i", "o", "n">>
KwReference == <<"r", "e", "f", "e", "r", "e", "n", "c", "e">>
KwIfFeature == <<"i", "f", "-", "f", "e", "a", "t", "u", "r", "e">>
KwUnits == <<"u", "n", "i", "t", "s">>
KwDefault == <<"d", "e", "f", "a", "u", "l", "t">>
KwConfig == <<"c", "o", "n", "f", "i", "g">>
KwMandatory == <<"m", "a", "n", "d", "a", "t", "o", "r", "y">>
KwErrorMessage == <<"e", "r", "r", "o", "r", "-", "m", "e", "s", "s", "a", "g", "e">>
KwErrorAppTag == <<"e", "r", "r", "o", "r", "-", "a", "p", "p", "-", "t", "a", "g">>

KwLeafList == <<"l", "e", "a", "f", "-", "l", "i", "s", "t">>
KwBit == <<"b", "i", "t">>
KwOrderedBy == <<"o", "r", "d", "e", "r", "e", "d", "-", "b", "y">>
KwMinElements == <<"m", "i", "n", "-", "e", "l", "e", "m", "e", "n", "t", "s">>
KwMaxElements == <<"m", "a", "x", "-", "e", "l", "e", "m", "e", "n", "t", "s">>
KwPosition == <<"p", "o", "s", "i", "t", "i", "o", "n">>
KwFractionDigits ==
    <<"f", "r", "a", "c", "t", "i", "o", "n", "-", "d", "i", "g", "i", "t", "s">>
KwRange == <<"r", "a", "n", "g", "e">>

TxtSystem == <<"s", "y", "s", "t", "e", "m">>
TxtUser == <<"u", "s", "e", "r">>
TxtBoolean == <<"b", "o", "o", "l", "e", "a", "n">>
TxtEmpty == <<"e", "m", "p", "t", "y">>
TxtDecimal64 == <<"d", "e", "c", "i", "m", "a", "l", "6", "4">>
TxtBinary == <<"b", "i", "n", "a", "r", "y">>
TxtBits == <<"b", "i", "t", "s">>
TxtEnumeration == <<"e", "n", "u", "m", "e", "r", "a", "t", "i", "o", "n">>
TxtString == <<"s", "t", "r", "i", "n", "g">>
KwLength == <<"l", "e", "n", "g", "t", "h">>
TxtCurrent == <<"c", "u", "r", "r", "e", "n", "t">>
TxtDeprecated == <<"d", "e", "p", "r", "e", "c", "a", "t", "e", "d">>
TxtObsolete == <<"o", "b", "s", "o", "l", "e", "t", "e">>
TxtTrue == <<"t", "r", "u", "e">>
TxtFalse == <<"f", "a", "l", "s", "e">>
TxtConstructor == <<"c", "o", "n", "s", "t", "r", "u", "c", "t", "o", "r">>

-----------------------------------------------------------------------------
(* takeAll and the take descriptors.  A conversion function is named:      *)
(* ApplyParseFunc runs the one of that name.  A positional result is a     *)
(* sequence of converted values: one for One, at most one for ZeroOrOne    *)
(* (none is undefined), all of them for the plural cardinalities.          *)

\* enum Cardinality
ZeroOrOne == "ZeroOrOne"
One == "One"
ZeroOrMore == "ZeroOrMore"
More == "More"

\* new TakeParam(idenfitier, cardinality, parseFunc, prefix)
TakeParam(idenfitier, cardinality, parseFunc) ==
    [idenfitier |-> idenfitier, cardinality |-> cardinality,
     parseFunc |-> parseFunc, prefix |-> None]
TakeParamPrefixed(idenfitier, cardinality, parseFunc, prefix) ==
    [idenfitier |-> idenfitier, cardinality |-> cardinality,
     parseFunc |-> parseFunc, prefix |-> Some(prefix)]

\* the keys of the enum object StatusStmt, and a name every object inherits
StatusStmt == {TxtCurrent, TxtDeprecated, TxtObsolete}
ObjectPrototype == {TxtConstructor}

\* convertStatusStmt(text), text defined: StatusStmt[status] == undefined throws; a
\* name the enum object inherits is not undefined and comes back as that member
convertStatusStmt(this, text) ==
    IF text \in StatusStmt THEN Ok(this, text)
    ELSE IF text \in ObjectPrototype THEN Ok(this, <<"inherited">> \o text)
    ELSE ParserError(this, "invalid status")

\* convertBoolean(text)
convertBoolean(this, text) ==
    IF text = TxtTrue THEN Ok(this, TxtTrue)
    ELSE IF text = TxtFalse THEN Ok(this, TxtFalse)
    ELSE ParserError(this, "invalid boolean format")

\* String.trim
RECURSIVE TrimStart(_)
TrimStart(s) ==
    IF Len(s) > 0 /\ IsWhiteSpace(s[1]) THEN TrimStart(Tail(s)) ELSE s
Trim(s) == TrimStart(TrimEnd(s))

\* String.split(separator): the pieces between the separators, from index i on,
\* piece being the characters of the current piece read so far
RECURSIVE SplitFrom(_, _, _, _)
SplitFrom(s, separator, i, piece) ==
    IF i >= Len(s) THEN <<piece>>
    ELSE IF StartsWith(Slice(s, i), separator)
    THEN <<piece>> \o SplitFrom(s, separator, i + Len(separator), <<>>)
    ELSE SplitFrom(s, separator, i + 1, Append(piece, s[i + 1]))
Split(s, separator) == SplitFrom(s, separator, 0, <<>>)

\* String.split(separator, limit): no more than limit pieces are kept
SplitLimit(s, separator, limit) ==
    LET pieces == Split(s, separator)
    IN  IF Len(pieces) > limit THEN SubSeq(pieces, 1, limit) ELSE pieces

(* The unary plus of JavaScript on a string (+text), for texts of digits,  *)
(* signs, dots, whitespace and letters: StringToNumber trims the text; the *)
(* empty text is 0; an optional sign and a decimal literal (digits, digits *)
(* "." digits, "." digits) give its value; any other text is NaN.  A       *)
(* number is a record: nan, whether it is an integer, and its integer part.*)
Digits == {"0", "1", "2", "3", "4", "5", "6", "7", "8", "9"}
DigitValue(c) ==
    CASE c = "0" -> 0 [] c = "1" -> 1 [] c = "2" -> 2 [] c = "3" -> 3 [] c = "4" -> 4
      [] c = "5" -> 5 [] c = "6" -> 6 [] c = "7" -> 7 [] c = "8" -> 8 [] c = "9" -> 9

NaN == [nan |-> TRUE, integer |-> FALSE, num |-> 0]
Number(n, integer) == [nan |-> FALSE, integer |-> integer, num |-> n]

AllDigits(s) == \A i \in 1..Len(s) : s[i] \in Digits
AllZeros(s) == \A i \in 1..Len(s) : s[i] = "0"

\* the value of a sequence of decimal digits
RECURSIVE DigitsValue(_)
DigitsValue(s) ==
    IF s = <<>> THEN 0 ELSE 10 * DigitsValue(SubSeq(s, 1, Len(s) - 1)) + DigitValue(s[Len(s)])

\* StrUnsignedDecimalLiteral, scaled by the sign
UnsignedDecimal(s, sign) ==
    LET parts == Split(s, <<".">>)
    IN  IF Len(parts) > 2 \/ s = <<>> \/ s = <<".">> THEN NaN
        ELSE IF ~AllDigits(parts[1]) THEN NaN
        ELSE IF Len(parts) = 1 THEN Number(sign * DigitsValue(parts[1]), TRUE)
        ELSE IF ~AllDigits(parts[2]) THEN NaN
        ELSE Number(sign * DigitsValue(parts[1]), AllZeros(parts[2]))

\* StrDecimalLiteral: the literal after the whitespace was trimmed
SignedDecimal(t) ==
    IF t = <<>> THEN Number(0, TRUE)
    ELSE IF t[1] = "-" THEN UnsignedDecimal(Tail(t), -1)
    ELSE IF t[1] = "+" THEN UnsignedDecimal(Tail(t), 1)
    ELSE UnsignedDecimal(t, 1)

\* +text
ToNumber(text) == SignedDecimal(Trim(text))

\* convertInteger(text)
convertInteger(this, text) ==
    IF ToNumber(text).nan
    THEN ParserError(this, "expected the string token to be a number")
    ELSE IF ~ToNumber(text).integer THEN ParserError(this, "expected intger")
    ELSE Ok(this, ToNumber(text).num)

\* the check of convertPositiveInteger, num being what convertInteger gave
NotNegative(num) ==
    IF num.error # "" THEN num
    ELSE IF num.value < 0
    THEN ParserError(num.this, "bit position must be greater or equal to 0")
    ELSE num

\* convertPositiveInteger(text)
convertPositiveInteger(this, text) == NotNegative(convertInteger(this, text))

\* a range check that lets nineteen through
UpToNineteen(num) ==
    IF num.error # "" THEN num
    ELSE IF num.value < 1 \/ num.value > 19
    THEN ParserError(num.this, "fraction digits must be between 1 and 18 (inclusive)")
    ELSE num

\* the check of convertFractionDigits, num being what convertPositiveInteger gave
InFractionRange(num) ==
    IF num.error # "" THEN num
    ELSE IF num.value < 1 \/ num.value > 18
    THEN ParserError(num.this, "fraction digits must be between 1 and 18 (inclusive)")
    ELSE num

\* convertFractionDigits(text)
convertFractionDigits(this, text) == InFractionRange(convertPositiveInteger(this, text))

\* the keys of the enum object OrderedByStmt
OrderedByStmt == {TxtSystem, TxtUser}

\* convertOrderedByStmt(text), text defined: as convertStatusStmt
convertOrderedByStmt(this, text) ==
    IF text \in OrderedByStmt THEN Ok(this, text)
    ELSE IF text \in ObjectPrototype THEN Ok(this, <<"inherited">> \o text)
    ELSE ParserError(this, "invalid ordered-by statement")

\* a range of one number that is open below
OpenBelow(num) ==
    IF num.error # "" THEN num
    ELSE Ok(num.this, [lower_bound |-> 0, upper_bound |-> num.value])

\* new LengthRange(text) of one number, num being what convertPositiveInteger gave
SingleBound(num) ==
    IF num.error # "" THEN num
    ELSE Ok(num.this, [lower_bound |-> num.value, upper_bound |-> num.value])

\* new LengthRange(text) of two bounds
TwoBounds(lower, upper) ==
    IF lower.error # "" THEN lower
    ELSE IF upper.error # "" THEN upper
    ELSE Ok(lower.this, [lower_bound |-> lower.value, upper_bound |-> upper.value])

\* the constructor of LengthRange after text = text.trim(), bounds being
\* text.split("..", 2)
BoundsOf(this, text, bounds) ==
    IF Len(bounds) = 1 THEN SingleBound(convertPositiveInteger(this, text))
    ELSE TwoBounds(convertPositiveInteger(this, Trim(bounds[1])),
                   convertPositiveInteger(this, Trim(bounds[2])))

\* new LengthRange(text)
LengthRange(this, text) ==
    BoundsOf(this, Trim(text), SplitLimit(Trim(text), <<".", ".">>, 2))

RECURSIVE PushRules(_, _, _)

\* this.rules.push(new LengthRange(r)), unless the constructor threw
PushRule(this, rest, rules, range) ==
    IF range.error # "" THEN range
    ELSE PushRules(this, rest, Append(rules, range.value))

\* rules.forEach((r) => ...)
PushRules(this, segments, rules) ==
    IF segments = <<>> THEN Ok(this, [rules |-> rules])
    ELSE PushRule(this, Tail(segments), rules, LengthRange(this, Head(segments)))

\* new LengthRestriction(arg)
LengthRestriction(this, arg) == PushRules(this, Split(arg, <<"|">>), <<>>)

\* the descriptors of WhenStmt.parse, MustStmt.parse and LeafStmt.parse
WhenParams ==
    << TakeParam(KwDescription, ZeroOrOne, "argument"),
       TakeParam(KwReference, ZeroOrOne, "argument") >>

MustParams ==
    << TakeParam(KwErrorMessage, ZeroOrOne, "argument"),
       TakeParam(KwErrorAppTag, ZeroOrOne, "argument"),
       TakeParam(KwDescription, ZeroOrOne, "argument"),
       TakeParam(KwReference, ZeroOrOne, "argument") >>

LeafParams ==
    << TakeParam(KwIfFeature, ZeroOrMore, "argument"),
       TakeParam(KwMust, ZeroOrMore, "MustStmt.parse"),
       TakeParam(KwType, One, "identity"),
       TakeParam(KwStatus, ZeroOrOne, "status"),
       TakeParam(KwWhen, ZeroOrOne, "WhenStmt.parse"),
       TakeParam(KwUnits, ZeroOrOne, "argument"),
       TakeParam(KwDefault, ZeroOrOne, "argument"),
       TakeParam(KwConfig, ZeroOrOne, "boolean"),
       TakeParam(KwMandatory, ZeroOrOne, "boolean"),
       TakeParam(KwDescription, ZeroOrOne, "argument"),
       TakeParam(KwReference, ZeroOrOne, "argument") >>

\* the descriptors of LeafListStmt.parse, BitStmt.parse and Decimal64TypeStmt.parse
LeafListParams ==
    << TakeParam(KwIfFeature, ZeroOrMore, "argument"),
       TakeParam(KwMust, ZeroOrMore, "MustStmt.parse"),
       TakeParam(KwDefault, ZeroOrMore, "argument"),
       TakeParam(KwType, One, "identity"),
       TakeParam(KwOrderedBy, ZeroOrOne, "orderedBy"),
       TakeParam(KwStatus, ZeroOrOne, "status"),
       TakeParam(KwWhen, ZeroOrOne, "WhenStmt.parse"),
       TakeParam(KwUnits, ZeroOrOne, "argument"),
       TakeParam(KwConfig, ZeroOrOne, "boolean"),
       TakeParam(KwMinElements, ZeroOrOne, "integer"),
       TakeParam(KwMaxElements, ZeroOrOne, "integer"),
       TakeParam(KwDescription, ZeroOrOne, "argument"),
       TakeParam(KwReference, ZeroOrOne, "argument") >>

BitParams ==
    << TakeParam(KwIfFeature, ZeroOrMore, "argument"),
       TakeParam(KwDescription, ZeroOrOne, "argument"),
       TakeParam(KwPosition, ZeroOrOne, "positiveInteger"),
       TakeParam(KwReference, ZeroOrOne, "argument"),
       TakeParam(KwStatus, ZeroOrOne, "status") >>

Decimal64Params ==
    << TakeParam(KwFractionDigits, One, "fractionDigits"),
       TakeParam(KwRange, ZeroOrOne, "LengthRestriction") >>

RECURSIVE takeAll(_, _)

\* the argument placed after the positional results
ArgumentLast(arg, r) ==
    IF r.error # "" THEN r ELSE Ok(r.this, r.value \o <<arg>>)

\* new X(arg, ...unprocessed.takeAll(...)), r being what takeAll gave
WithArgument(arg, r) ==
    IF r.error # "" THEN r ELSE Ok(r.this, <<arg>> \o r.value)

\* unprocessed.takeAll(...) after unprocessed.takeArgumentOrError() gave a
AfterArgument(a, take_params) ==
    IF a.error # "" THEN a ELSE WithArgument(a.value, takeAll(a.this, take_params))

\* new X(unprocessed.takeArgumentOrError(), ...unprocessed.takeAll(params)): the
\* argument, then the positional results
ParseWith(unprocessed, take_params) ==
    AfterArgument(takeArgumentOrError(unprocessed, FALSE), take_params)

WhenStmtParse(unprocessed) == ParseWith(unprocessed, WhenParams)
MustStmtParse(unprocessed) == ParseWith(unprocessed, MustParams)
LeafStmtParse(unprocessed) == ParseWith(unprocessed, LeafParams)
LeafListStmtParse(unprocessed) == ParseWith(unprocessed, LeafListParams)
BitStmtParse(unprocessed) == ParseWith(unprocessed, BitParams)

\* throw new Error("internal: ... statement parsed with wrong identifier")
InternalError(this) == [this |-> this, error |-> "Error", msg |-> "internal", value |-> None]

\* if (unp.takeArgumentOrError() != identifier) { throw new Error(...) }, a being
\* what unp.takeArgumentOrError() gave
CheckedIdentifier(a, identifier) ==
    IF a.error # "" THEN a
    ELSE IF a.value # identifier THEN InternalError(a.this)
    ELSE a

\* return new EmptyTypeStmt(), return new BooleanTypeStmt(): after the check c
NoFields(c) == IF c.error # "" THEN c ELSE Ok(c.this, <<>>)

\* return new Decimal64TypeStmt(...unp.takeAll(...)): after the check c
FieldsOf(c, take_params) ==
    IF c.error # "" THEN c ELSE takeAll(c.this, take_params)

EmptyTypeStmtParse(unp_) ==
    NoFields(CheckedIdentifier(takeArgumentOrError(unp_, FALSE), TxtEmpty))
BooleanTypeStmtParse(unp_) ==
    NoFields(CheckedIdentifier(takeArgumentOrError(unp_, FALSE), TxtBoolean))
Decimal64TypeStmtParse(unp_) ==
    FieldsOf(CheckedIdentifier(takeArgumentOrError(unp_, FALSE), TxtDecimal64),
             Decimal64Params)

\* the descriptors of BinaryTypeStmt.parse, LengthStmt.parse, BitTypeStmt.parse and
\* of the BitStmt.parse that BitTypeStmt.parse names; a conversion marked
\* "(any)" calls takeArgumentOrError() without EnsureNoSubstatements.Set
BinaryParams == << TakeParam(KwLength, ZeroOrOne, "LengthStmt.parse") >>

LengthParams ==
    << TakeParam(KwErrorMessage, ZeroOrOne, "argument (any)"),
       TakeParam(KwErrorAppTag, ZeroOrOne, "argument (any)"),
       TakeParam(KwDescription, ZeroOrOne, "argument (any)"),
       TakeParam(KwReference, ZeroOrOne, "argument (any)") >>

BitTypeParams == << TakeParam(KwBit, ZeroOrMore, "BitStmt.parse") >>

BitOfTypeParams == << TakeParam(KwPosition, ZeroOrOne, "positiveInteger (any)") >>

BinaryTypeStmtParse(unp_) ==
    FieldsOf(CheckedIdentifier(takeArgumentOrError(unp_, FALSE), TxtBinary), BinaryParams)
BitTypeStmtParse(unp_) ==
    FieldsOf(CheckedIdentifier(takeArgumentOrError(unp_, FALSE), TxtBits), BitTypeParams)

\* unp.peekArgumentOrError(): the argument, which stays on the node
peekArgumentOrError(this) ==
    IF this.argument = None \/ this.argument[1] = <<>>
    THEN ParserError(this, "argument is mandatory")
    ELSE Ok(this, this.argument[1])

(* What parseTypeStmt returns: a TypeStmt, of which typeIdentifier() and   *)
(* the fields are kept, a function, or undefined.                          *)
TypeStmtOf(name, fields) ==
    [kind |-> "TypeStmt", typeIdentifier |-> name, fields |-> fields]
FunctionNamed(name) == [kind |-> "function", typeIdentifier |-> name, fields |-> <<>>]
Undefined == [kind |-> "undefined", typeIdentifier |-> <<>>, fields |-> <<>>]

\* return X.parse(unp), r being what X.parse(unp) gave
Typed(name, r) ==
    IF r.error # "" THEN r ELSE Ok(r.this, TypeStmtOf(name, r.value))

\* switch (arg), arg being what unp.peekArgumentOrError() gave
SwitchOnType(arg, unp_) ==
    IF arg.error # "" THEN arg
    ELSE IF arg.value = TxtBinary THEN Typed(TxtBinary, BinaryTypeStmtParse(unp_))
    ELSE IF arg.value = TxtBits THEN Typed(TxtBits, BitTypeStmtParse(unp_))
    ELSE IF arg.value = TxtBoolean THEN Typed(TxtBoolean, BooleanTypeStmtParse(unp_))
    ELSE IF arg.value = TxtDecimal64 THEN Typed(TxtDecimal64, Decimal64TypeStmtParse(unp_))
    ELSE IF arg.value = TxtEmpty THEN Typed(TxtEmpty, EmptyTypeStmtParse(unp_))
    ELSE IF arg.value = TxtEnumeration
    THEN Ok(unp_, FunctionNamed(<<"EnumerationTypeStmt.parse">>))
    ELSE Ok(unp_, Undefined)

\* TypeStmt.parseTypeStmt(unp)
parseTypeStmt(unp_) == SwitchOnType(peekArgumentOrError(unp_), unp_)

\* convertStatusStmt(a) or convertBoolean(a) of the argument a child gave
Converted(parseFunc, a) ==
    IF a.error # "" \/ parseFunc = "argument" THEN a
    ELSE IF parseFunc = "status" THEN convertStatusStmt(a.this, a.value)
    ELSE IF parseFunc = "orderedBy" THEN convertOrderedByStmt(a.this, a.value)
    ELSE IF parseFunc = "integer" THEN convertInteger(a.this, a.value)
    ELSE IF parseFunc = "positiveInteger" THEN convertPositiveInteger(a.this, a.value)
    ELSE IF parseFunc = "fractionDigits" THEN convertFractionDigits(a.this, a.value)
    ELSE IF parseFunc = "LengthRestriction" THEN LengthRestriction(a.this, a.value)
    ELSE convertBoolean(a.this, a.value)

\* LengthStmt.parse: new LengthStmt(new LengthRestriction(arg), ...unp.takeAll(...))
LengthStmtParse(unp_) ==
    AfterArgument(Converted("LengthRestriction", takeArgumentOrError(unp_, FALSE)),
                  LengthParams)

\* the BitStmt.parse next to the type statements
BitOfTypeParse(unp_) == ParseWith(unp_, BitOfTypeParams)

\* v.parseFunc(child): the error or the converted value
ApplyParseFunc(parseFunc, child) ==
    IF parseFunc = "identity" THEN Ok(child, child)
    ELSE IF parseFunc = "MustStmt.parse" THEN MustStmtParse(child)
    ELSE IF parseFunc = "WhenStmt.parse" THEN WhenStmtParse(child)
    ELSE IF parseFunc = "LengthStmt.parse" THEN LengthStmtParse(child)
    ELSE IF parseFunc = "BitStmt.parse" THEN BitOfTypeParse(child)
    ELSE IF parseFunc = "argument (any)"
    THEN Converted("argument", takeArgumentOrError(child, FALSE))
    ELSE IF parseFunc = "positiveInteger (any)"
    THEN Converted("positiveInteger", takeArgumentOrError(child, FALSE))
    ELSE Converted(parseFunc, takeArgumentOrError(child, TRUE))

RECURSIVE ConvertEach(_, _, _, _)

\* children.push(c) and the rest of the children, unless the conversion threw; the
\* error leaves this as it is
ConvertNext(this, parseFunc, stmts, children, c) ==
    IF c.error # "" THEN [this |-> this, error |-> c.error, msg |-> c.msg, value |-> None]
    ELSE ConvertEach(this, parseFunc, stmts, Append(children, c.value))

\* children.forEach((child) => children.push(v.parseFunc(child))): the converted
\* values, or the first error
ConvertEach(this, parseFunc, stmts, children) ==
    IF stmts = <<>> THEN Ok(this, children)
    ELSE ConvertNext(this, parseFunc, Tail(stmts), children,
                     ApplyParseFunc(parseFunc, Head(stmts)))

\* a take by position: the children of whichever key the node holds first
TakeByPosition(this, v) ==
    IF DOMAIN this.sub_statements = {} THEN Ok(this, <<>>)
    ELSE LET key == CHOOSE k \in DOMAIN this.sub_statements : TRUE
         IN  Ok([this EXCEPT !.sub_statements = MapDelete(@, key)],
                this.sub_statements[key])

\* the take operation takeAll makes for a cardinality
TakeFor(this, v) ==
    IF v.cardinality = ZeroOrOne THEN takeOptional(this, v.idenfitier, v.prefix)
    ELSE IF v.cardinality = ZeroOrMore THEN takeZeroOrMore(this, v.idenfitier, v.prefix)
    ELSE IF v.cardinality = One THEN takeOne(this, v.idenfitier, v.prefix)
    ELSE takeZeroOrMore(this, v.idenfitier, v.prefix)

\* the conversions of the children that the take operation gave in t
ConvertTaken(t, parseFunc) ==
    IF t.error # "" THEN t ELSE ConvertEach(t.this, parseFunc, t.value, <<>>)

\* the body of take_params.forEach((v) => ...): one positional result
TakeAllStep(this, v) == ConvertTaken(TakeFor(this, v), v.parseFunc)

\* this.ensureEmpty(), and the positional results when it returns
TakeAllEnd(e, result) == IF e.error # "" THEN e ELSE Ok(e.this, result)

RECURSIVE TakeAllFrom(_, _, _)

\* result.push(...) and the rest of the descriptors, unless the step threw
TakeAllNext(s, take_params, result) ==
    IF s.error # "" THEN s
    ELSE TakeAllFrom(s.this, take_params, Append(result, s.value))

\* take_params.forEach(...) and then this.ensureEmpty()
TakeAllFrom(this, take_params, result) ==
    IF take_params = <<>> THEN TakeAllEnd(ensureEmpty(this), result)
    ELSE TakeAllNext(TakeAllStep(this, Head(take_params)), Tail(take_params), result)

\* this.takeAll(...take_params)
takeAll(this, take_params) == TakeAllFrom(this, take_params, <<>>)


-----------------------------------------------------------------------------
(* getToken as one call, for the callers of the lexer: the passes of the   *)
(* loop up to the return.  A pass that changes neither the lexer nor the   *)
(* locals repeats for ever: the call hangs, and done stays FALSE.          *)

RECURSIVE GetTokenLoop(_, _)

\* after the pass that gave r: the return, the hang, or the next pass
GetTokenAfter(lx, fr, r) ==
    IF r.done THEN r
    ELSE IF r.lx = lx /\ r.frame = fr THEN r
    ELSE GetTokenLoop(r.lx, r.frame)

GetTokenLoop(lx, fr) == GetTokenAfter(lx, fr, GetTokenIter(lx, fr))

\* the loop entered after the code before it, unless that returned
GetTokenFrom(e) == IF e.done THEN e ELSE GetTokenLoop(e.lx, e.frame)

getToken(lx) == GetTokenFrom(GetTokenEnter(lx))

\* the token a getToken call gave is kept in the one-slot buffer
Peeked(r) ==
    IF r.done /\ ~r.thrown THEN [r EXCEPT !.lx = saveToken(r.lx, r.tok)] ELSE r

\* Lexer.peek(): the next token, kept in the one-slot buffer so that the next
\* getToken gives it again
peek(lx) ==
    IF lx.saved_token # None THEN Return(lx, NewFrame, lx.saved_token[1])
    ELSE Peeked(getToken(lx))

-----------------------------------------------------------------------------
(* UnprocessedStatement.Parse(lexer).  The result holds the lexer          *)
(* afterwards and one of: a statement, null, an error thrown (a token of   *)
(* the lexer or a ParserError), or a lexer call that hangs.                *)

Parsed(lx, stmt) == [lx |-> lx, kind |-> "statement", stmt |-> Some(stmt), error |-> ""]
ParsedNull(lx) == [lx |-> lx, kind |-> "null", stmt |-> None, error |-> ""]
ParseThrows(lx, error) == [lx |-> lx, kind |-> "throws", stmt |-> None, error |-> error]
ParseHangs(lx) == [lx |-> lx, kind |-> "hangs", stmt |-> None, error |-> ""]

\* a lexer call that did not return a token, as the result of Parse
LexerFails(r) == IF r.done THEN ParseThrows(r.lx, r.tok.type) ELSE ParseHangs(r.lx)

\* keyword.split(":").length > 1
HasColon(keyword) == IndexOf(keyword, <<":">>) # -1

\* parts.length > 1 ? keyword.slice(keyword.indexOf(":")) : keyword
IdentifierOf(keyword) ==
    IF HasColon(keyword) THEN Slice(keyword, IndexOf(keyword, <<":">>)) ELSE keyword

\* parts.length > 1 ? parts[0] : undefined
PrefixOf(keyword) ==
    IF HasColon(keyword) THEN Some(Slice2(keyword, 0, IndexOf(keyword, <<":">>)))
    ELSE None

RECURSIVE Parse(_)
RECURSIVE ParseChildren(_, _)

\* if (child == null) break; result.add(child)
ParseChild(child, result) ==
    IF child.kind = "null" THEN Parsed(child.lx, result)
    ELSE IF child.kind # "statement" THEN child
    ELSE ParseChildren(child.lx, add(result, child.stmt[1]))

\* "*statement": for (;;) { let child = UnprocessedStatement.Parse(lexer) ... }
ParseChildren(lx, result) == ParseChild(Parse(lx), result)

\* '(";" / "{" *statement "}")', t being what lexer.getToken() gave
ParseEnd(t, result) ==
    IF ~t.done \/ t.thrown THEN LexerFails(t)
    ELSE IF t.tok.type = "StatementEndToken" THEN Parsed(t.lx, result)
    ELSE IF t.tok.type = "BlockBeginToken" THEN ParseChildren(t.lx, result)
    ELSE ParseThrows(t.lx, "ParserError")

\* "[argument]", p being what lexer.peek() gave
ParseArgument(p, result) ==
    IF ~p.done \/ p.thrown THEN LexerFails(p)
    ELSE IF p.tok.type = "StringToken"
    THEN ParseEnd(getToken(getToken(p.lx).lx),
                  [result EXCEPT !.argument = Some(p.tok.content)])
    ELSE ParseEnd(getToken(p.lx), result)

\* the keyword, p being what lexer.peek() gave
ParseKeyword(p) ==
    IF ~p.done \/ p.thrown THEN LexerFails(p)
    ELSE IF p.tok.type # "StringToken" THEN ParsedNull(p.lx)
    ELSE ParseArgument(peek(getToken(p.lx).lx),
                       UnprocessedStatement(Identifier(IdentifierOf(p.tok.content)),
                                            PrefixOf(p.tok.content), None))

Parse(lx) == ParseKeyword(peek(lx))


-----------------------------------------------------------------------------
(* The builder of a node and the caller of the extraction engine, as in    *)
(* the tests: new UnprocessedStatement(...), add(...) and pop() on a child *)
(* list, then one extraction call on the node.                             *)

\* the most children the builder adds to a node
MaxAdded == 3

TxtX == <<"x">>
TxtQ == <<"q">>
KwThing == <<"t", "h", "i", "n", "g">>
PfxExt == <<"e", "x", "t">>

Stmt(keyword, argument) == UnprocessedStatement(Identifier(keyword), None, Some(argument))

\* the nodes the builder starts from
Roots ==
    {UnprocessedStatement(Identifier(k), None, a) :
        k \in {KwLeaf, KwWhen, KwMust}, a \in {None, Some(<<>>), Some(TxtX)}}

\* the children the builder adds
ChildPool ==
    { Stmt(KwType, TxtX),
      add(Stmt(KwMust, TxtX), Stmt(KwErrorMessage, TxtQ)),
      Stmt(KwStatus, TxtObsolete),
      Stmt(KwFake, TxtQ),
      Stmt(KwIfFeature, TxtQ),
      Stmt(KwIfFeature, TxtX),
      Stmt(KwDescription, TxtQ),
      UnprocessedStatement(Identifier(KwThing), Some(PfxExt), Some(TxtQ)) }

\* the (identifier, prefix) pairs the caller asks for
TakeKeys ==
    { <<KwType, None>>, <<KwMust, None>>, <<KwFake, None>>, <<KwThing, Some(PfxExt)>>,
      <<KwThing, None>>, <<KwDescription, Some(<<>>)>> }

\* the descriptor lists the caller hands to takeAll
ParamLists ==
    { <<>>,
      <<TakeParam(KwType, One, "identity")>>,
      <<TakeParam(KwType, More, "identity")>>,
      <<TakeParam(KwFake, ZeroOrMore, "argument"), TakeParam(KwType, ZeroOrOne, "identity")>>,
      <<TakeParam(KwMust, More, "MustStmt.parse"),
        TakeParamPrefixed(KwThing, ZeroOrOne, "argument", PfxExt)>>,
      <<TakeParam(KwType, One, "identity"), TakeParam(KwIfFeature, ZeroOrMore, "argument"),
        TakeParam(KwDescription, ZeroOrOne, "argument")>>,
      WhenParams }

\* the number of children of a node
RECURSIVE SumLen(_, _)
SumLen(m, keys) ==
    IF keys = {} THEN 0
    ELSE LET k == CHOOSE k \in keys : TRUE
         IN  Len(m[k]) + SumLen(m, keys \ {k})
ChildCount(this) == SumLen(this.sub_statements, DOMAIN this.sub_statements)

\* the number of children stored under the key (identifier, prefix)
CountOf(this, identifier, prefix) ==
    LET stmts == MapGet(this.sub_statements, KeyOf(identifier, prefix))
    IN  IF stmts = None THEN 0 ELSE Len(stmts[1])

\* unp.add(child), before any pop()
AddChild ==
    /\ call = None
    /\ ChildCount(unp) < MaxAdded
    /\ \A key \in DOMAIN unp.sub_statements : Len(unp.sub_statements[key]) > 0
    /\ \E child \in ChildPool : unp' = add(unp, child)
    /\ UNCHANGED <<doc, lexer, frame, pc, out, written, tree, call, outcome>>

\* unp.sub_statements.get(key)!.pop() on a list of one child: the key stays, with
\* an empty list
PopChild ==
    /\ call = None
    /\ \E key \in DOMAIN unp.sub_statements :
        /\ Len(unp.sub_statements[key]) = 1
        /\ unp' = [unp EXCEPT !.sub_statements[key] = SubSeq(@, 1, Len(@) - 1)]
    /\ UNCHANGED <<doc, lexer, frame, pc, out, written, tree, call, outcome>>

\* the call is made on unp: the node and the result are kept
Made(name, identifier, prefix, take_params, r) ==
    /\ call = None
    /\ call' = Some([name |-> name, identifier |-> identifier, prefix |-> prefix,
                     take_params |-> take_params, this |-> unp])
    /\ unp' = r.this
    /\ outcome' = Some([error |-> r.error, msg |-> r.msg, value |-> r.value])
    /\ UNCHANGED <<doc, lexer, frame, pc, out, written, tree>>

TakeOne ==
    \E k \in TakeKeys : Made("takeOne", k[1], k[2], <<>>, takeOne(unp, k[1], k[2]))

TakeOptional ==
    \E k \in TakeKeys : Made("takeOptional", k[1], k[2], <<>>, takeOptional(unp, k[1], k[2]))

TakeOneOrMore ==
    \E k \in TakeKeys : Made("takeOneOrMore", k[1], k[2], <<>>, takeOneOrMore(unp, k[1], k[2]))

TakeZeroOrMore ==
    \E k \in TakeKeys : Made("takeZeroOrMore", k[1], k[2], <<>>, takeZeroOrMore(unp, k[1], k[2]))

ArgumentOrError == Made("argumentOrError", <<>>, None, <<>>, argumentOrError(unp))

EnsureEmpty == Made("ensureEmpty", <<>>, None, <<>>, ensureEmpty(unp))

TakeAll == \E ps \in ParamLists : Made("takeAll", <<>>, None, ps, takeAll(unp, ps))

WhenParse == Made("WhenStmt.parse", <<>>, None, WhenParams, WhenStmtParse(unp))

MustParse == Made("MustStmt.parse", <<>>, None, MustParams, MustStmtParse(unp))

LeafParse == Made("LeafStmt.parse", <<>>, None, LeafParams, LeafStmtParse(unp))

TakeInit ==
    /\ unp \in Roots
    /\ call = None
    /\ outcome = None
    /\ doc = <<>>
    /\ lexer = NewLexer(<<>>)
    /\ frame = NewFrame
    /\ pc = "idle"
    /\ out = <<>>
    /\ written = None
    /\ tree = None

TakeNext ==
    \/ AddChild
    \/ PopChild
    \/ TakeOne
    \/ TakeOptional
    \/ TakeOneOrMore
    \/ TakeZeroOrMore
    \/ ArgumentOrError
    \/ EnsureEmpty
    \/ TakeAll
    \/ WhenParse
    \/ MustParse
    \/ LeafParse

TakeSpec == TakeInit /\ [][TakeNext]_vars

-----------------------------------------------------------------------------
(* The caller of the typed parsers: a node is built with add(...) and one  *)
(* of the parse functions is called on it.                                 *)

\* the most children the builder adds to a node handed to a typed parser
MaxTypeAdded == 2

TxtBad == <<"b", "a", "d">>

\* the argument texts of the numeric substatements
NumberTexts ==
    { <<"0">>, <<"1">>, <<"1", "8">>, <<"1", "9">>, <<"-", "1">>, <<"1", ".", "5">>,
      <<"x">> }

SignedTexts == { <<"0">>, <<"1">>, <<"-", "1">> }

TypeRoots ==
    { Stmt(KwType, TxtBoolean), Stmt(KwType, TxtEmpty), Stmt(KwType, TxtDecimal64),
      Stmt(KwLeaf, TxtX), Stmt(KwLeafList, TxtX), Stmt(KwBit, TxtX),
      Stmt(KwType, TxtBinary), Stmt(KwType, TxtBits), Stmt(KwType, TxtEnumeration),
      Stmt(KwType, TxtString),
      UnprocessedStatement(Identifier(KwType), None, None) }

TypeChildPool ==
    { Stmt(KwType, TxtX), Stmt(KwFake, TxtQ), Stmt(KwRange, <<"1", ".", ".", "2">>),
      add(Stmt(KwStatus, TxtCurrent), Stmt(KwFake, TxtQ)),
      Stmt(KwLength, <<"1", ".", ".", "2">>), Stmt(KwLength, <<"x">>),
      add(Stmt(KwLength, <<"5">>), Stmt(KwDescription, TxtQ)),
      Stmt(KwBit, TxtX), add(Stmt(KwBit, TxtQ), Stmt(KwPosition, <<"1">>)),
      add(Stmt(KwBit, TxtQ), Stmt(KwPosition, <<"-", "1">>)) }
    \cup { Stmt(KwStatus, t) : t \in StatusStmt \cup {TxtBad, TxtConstructor} }
    \cup { Stmt(KwOrderedBy, t) : t \in OrderedByStmt \cup {TxtBad} }
    \cup { Stmt(KwFractionDigits, t) : t \in NumberTexts }
    \cup { Stmt(k, t) : k \in {KwPosition, KwMinElements, KwMaxElements},
                        t \in SignedTexts }

\* unp.add(child)
AddTypeChild ==
    /\ call = None
    /\ ChildCount(unp) < MaxTypeAdded
    /\ \E child \in TypeChildPool : unp' = add(unp, child)
    /\ UNCHANGED <<doc, lexer, frame, pc, out, written, tree, call, outcome>>

EmptyTypeParse == Made("EmptyTypeStmt.parse", <<>>, None, <<>>, EmptyTypeStmtParse(unp))

BooleanTypeParse ==
    Made("BooleanTypeStmt.parse", <<>>, None, <<>>, BooleanTypeStmtParse(unp))

Decimal64TypeParse ==
    Made("Decimal64TypeStmt.parse", <<>>, None, Decimal64Params,
         Decimal64TypeStmtParse(unp))

LeafListParse ==
    Made("LeafListStmt.parse", <<>>, None, LeafListParams, LeafListStmtParse(unp))

BitParse == Made("BitStmt.parse", <<>>, None, BitParams, BitStmtParse(unp))

ParseTypeStmt == Made("TypeStmt.parseTypeStmt", <<>>, None, <<>>, parseTypeStmt(unp))

TypeInit ==
    /\ unp \in TypeRoots
    /\ call = None
    /\ outcome = None
    /\ doc = <<>>
    /\ lexer = NewLexer(<<>>)
    /\ frame = NewFrame
    /\ pc = "idle"
    /\ out = <<>>
    /\ written = None
    /\ tree = None

TypeNext ==
    \/ AddTypeChild
    \/ EmptyTypeParse
    \/ BooleanTypeParse
    \/ Decimal64TypeParse
    \/ LeafParse
    \/ LeafListParse
    \/ BitParse
    \/ ParseTypeStmt

TypeSpec == TypeInit /\ [][TypeNext]_vars

-----------------------------------------------------------------------------
(* The caller of new LengthRestriction(arg): a restriction is written as   *)
(* segments joined by "|"; written keeps the segments, doc is the text.    *)

\* the most segments of a restriction text
MaxSegments == 2

\* the numbers written in the segments, and how each is written
BoundNumbers == {0, 5, 12}
NumberText(n) == CASE n = 0 -> <<"0">> [] n = 5 -> <<"5">> [] n = 12 -> <<"1", "2">>

\* a segment as written: its text, and the bounds it writes when it is well formed
Segment(text, bounds) == [text |-> text, bounds |-> bounds]

\* a bare number n, and a..b, with whitespace around each side or not
BareNumbers ==
    { Segment(l \o NumberText(n) \o r, Some(<<n, n>>)) :
        n \in BoundNumbers, l \in {<<>>, <<SP>>}, r \in {<<>>, <<SP>>} }
TwoNumbers ==
    { Segment(pad \o NumberText(a) \o pad \o <<".", ".">> \o pad \o NumberText(b) \o pad,
              Some(<<a, b>>)) :
        a \in BoundNumbers, b \in BoundNumbers, pad \in {<<>>, <<SP>>} }

\* segments that are neither: a missing bound, nothing, a third bound, a negative
\* number, a number that is no integer, a text that is no number
Malformed ==
    { Segment(t, None) :
        t \in { <<"5", ".", ".">>, <<".", ".", "5">>, <<>>, <<SP>>,
                <<"1", ".", ".", "2", ".", ".", "3">>, <<"-", "1">>, <<"1", ".", "5">>,
                <<"x">>, <<"1", ".", ".", "x">>, <<"-", "1", ".", ".", "5">> } }

Segments == BareNumbers \cup TwoNumbers \cup Malformed

\* the text of a restriction: its segments joined by "|"
RestrictionText(segments) ==
    LET text[i \in 0..Len(segments)] ==
            IF i = 0 THEN <<>>
            ELSE IF i = 1 THEN segments[1].text
            ELSE text[i - 1] \o <<"|">> \o segments[i].text
    IN  text[Len(segments)]

\* new LengthRestriction(text)
NewLengthRestriction ==
    /\ written # None
    /\ outcome = None
    /\ outcome' = Some([error |-> LengthRestriction(unp, doc).error,
                        msg |-> LengthRestriction(unp, doc).msg,
                        value |-> LengthRestriction(unp, doc).value])
    /\ UNCHANGED <<doc, lexer, frame, pc, out, written, tree, unp, call>>

RestrictInit ==
    /\ written \in {Some(segments) : segments \in SeqsUpTo(Segments, MaxSegments) \ {<<>>}}
    /\ doc = RestrictionText(written[1])
    /\ unp = None
    /\ call = None
    /\ outcome = None
    /\ lexer = NewLexer(<<>>)
    /\ frame = NewFrame
    /\ pc = "idle"
    /\ out = <<>>
    /\ tree = None

RestrictNext == NewLengthRestriction

RestrictSpec == RestrictInit /\ [][RestrictNext]_vars

-----------------------------------------------------------------------------
(* The caller of the tree parser: a statement is written as text, a lexer  *)
(* is made on the text, and UnprocessedStatement.Parse(lexer) is called.   *)

\* the most children written in the outer block, and in a nested block
MaxChildren == 2
MaxNested == 1

TxtPA == <<"p", ":", "a">>

\* a statement as written: keyword [argument] (";" / "{" *statement "}")
Statement(keyword, argument, block, children) ==
    [keyword |-> keyword, argument |-> argument, block |-> block, children |-> children]

Leaves ==
    { Statement(TxtC, None, FALSE, <<>>),
      Statement(TxtD, None, FALSE, <<>>),
      Statement(TxtD, Some(TxtV), FALSE, <<>>),
      Statement(TxtPA, Some(TxtV), FALSE, <<>>) }

Nested == {Statement(TxtB, None, TRUE, cs) : cs \in SeqsUpTo(Leaves, MaxNested)}

Outer ==
    {Statement(k, None, TRUE, cs) :
        k \in {TxtA, TxtPA}, cs \in SeqsUpTo(Leaves \cup Nested, MaxChildren)}

Statements == Leaves \cup Nested \cup Outer

\* the text of a statement
RECURSIVE Render(_)
Render(st) ==
    LET body[i \in 0..Len(st.children)] ==
            IF i = 0 THEN <<>>
            ELSE body[i - 1] \o <<SP>> \o Render(st.children[i])
    IN  st.keyword
        \o (IF st.argument = None THEN <<>> ELSE <<SP>> \o st.argument[1])
        \o (IF st.block THEN <<SP, "{">> \o body[Len(st.children)] \o <<SP, "}">>
            ELSE <<";">>)

\* the node of a statement: its keyword split as Parse splits it, its argument,
\* and the node of every statement of its block added in the order written
RECURSIVE NodeOf(_)
NodeOf(st) ==
    LET node[i \in 0..Len(st.children)] ==
            IF i = 0
            THEN UnprocessedStatement(Identifier(IdentifierOf(st.keyword)),
                                      PrefixOf(st.keyword), st.argument)
            ELSE add(node[i - 1], NodeOf(st.children[i]))
    IN  node[Len(st.children)]

\* what the call gave is kept, and the lexer is as the call left it
ParseGave(r) ==
    /\ tree' = Some([kind |-> r.kind, stmt |-> r.stmt, error |-> r.error])
    /\ lexer' = r.lx

\* UnprocessedStatement.Parse(new Lexer(text))
ParseCall ==
    /\ written # None
    /\ tree = None
    /\ ParseGave(Parse(lexer))
    /\ UNCHANGED <<doc, frame, pc, out, written, unp, call, outcome>>

ParseInit ==
    /\ written \in {Some(st) : st \in Statements}
    /\ doc = Render(written[1])
    /\ lexer = NewLexer(doc)
    /\ frame = NewFrame
    /\ pc = "idle"
    /\ out = <<>>
    /\ tree = None
    /\ unp = None
    /\ call = None
    /\ outcome = None

ParseNext == ParseCall

ParseSpec == ParseInit /\ [][ParseNext]_vars

-----------------------------------------------------------------------------
(* Properties of the extraction engine, stated on the call made (call) and *)
(* its result (outcome, and the node afterwards in unp).                   *)

\* the call made and its result
TheCall == call[1]
TheOutcome == outcome[1]

\* the keys the descriptors of a list name
ParamKeys(take_params) ==
    {KeyOf(take_params[i].idenfitier, take_params[i].prefix) : i \in DOMAIN take_params}

\* the children of a node stored under a key, in order
ChildrenOf(this, identifier, prefix) ==
    LET stmts == MapGet(this.sub_statements, KeyOf(identifier, prefix))
    IN  IF stmts = None THEN <<>> ELSE stmts[1]

\* C1: takeAll raises ParserError whenever the node holds a key that no
\* descriptor names or a set argument, and it returns normally only with a node
\* that holds neither a key nor an argument; WhenStmt.parse on a node with a
\* child `fake` raises ParserError.
C1_ClosedWorld ==
    call # None =>
        /\ TheCall.name = "takeAll" =>
            /\ TheOutcome.error \in {"", "ParserError"}
            /\ ( \/ \E key \in DOMAIN TheCall.this.sub_statements :
                        key \notin ParamKeys(TheCall.take_params)
                 \/ TheCall.this.argument # None )
               => TheOutcome.error = "ParserError"
            /\ TheOutcome.error = "" =>
                /\ MapSize(unp.sub_statements) = 0
                /\ unp.argument = None
        /\ (TheCall.name = "WhenStmt.parse" /\ CountOf(TheCall.this, KwFake, None) > 0)
           => TheOutcome.error = "ParserError"

\* a `when` node with an argument and a child `fake` was parsed, and the closing
\* check refused it
C1_Witness ==
    /\ call # None
    /\ TheCall.name = "WhenStmt.parse"
    /\ TheCall.this.argument = Some(TxtX)
    /\ CountOf(TheCall.this, KwFake, None) = 1
    /\ ChildCount(TheCall.this) = 1
    /\ TheOutcome.error = "ParserError"
    /\ TheOutcome.msg = "Found unknown substatements"

\* C2: with n children under the key (identifier, prefix), takeOne succeeds iff
\* n = 1, takeOptional iff n <= 1 (undefined when n = 0), takeOneOrMore iff
\* n >= 1, takeZeroOrMore always; a failure is a ParserError; a success returns
\* exactly the children of the key and removes the key, and nothing else, from
\* the node.
C2_CardinalityLaw ==
    (call # None /\ TheCall.name \in {"takeOne", "takeOptional", "takeOneOrMore", "takeZeroOrMore"}) =>
        LET n == CountOf(TheCall.this, TheCall.identifier, TheCall.prefix)
            key == KeyOf(TheCall.identifier, TheCall.prefix)
            succeeds == TheOutcome.error = ""
        IN  /\ TheCall.name = "takeOne" => (succeeds <=> n = 1)
            /\ TheCall.name = "takeOptional" => (succeeds <=> n <= 1)
            /\ TheCall.name = "takeOneOrMore" => (succeeds <=> n >= 1)
            /\ TheCall.name = "takeZeroOrMore" => succeeds
            /\ ~succeeds => TheOutcome.error = "ParserError"
            /\ succeeds =>
                /\ TheOutcome.value = ChildrenOf(TheCall.this, TheCall.identifier, TheCall.prefix)
                /\ (TheCall.name = "takeOptional" /\ n = 0) => TheOutcome.value = None
                /\ unp = [TheCall.this EXCEPT !.sub_statements = MapDelete(@, key)]
                /\ key \notin DOMAIN unp.sub_statements

\* takeOneOrMore took two children stored under one key out of a node that keeps
\* another child
C2_Witness ==
    /\ call # None
    /\ TheCall.name = "takeOneOrMore"
    /\ CountOf(TheCall.this, TheCall.identifier, TheCall.prefix) = 2
    /\ ChildCount(TheCall.this) = 3
    /\ TheOutcome.error = ""
    /\ Len(TheOutcome.value) = 2
    /\ ChildCount(unp) = 1

\* C3: takeAll enforces the cardinality each descriptor declares: More raises
\* ParserError when the node has no child under the key, One unless there is
\* exactly one, ZeroOrOne when there is more than one.
C3_DeclaredCardinality ==
    (call # None /\ TheCall.name = "takeAll") =>
        \A i \in DOMAIN TheCall.take_params :
            LET v == TheCall.take_params[i]
                n == CountOf(TheCall.this, v.idenfitier, v.prefix)
            IN  ( \/ v.cardinality = More /\ n = 0
                  \/ v.cardinality = One /\ n # 1
                  \/ v.cardinality = ZeroOrOne /\ n > 1 )
                => TheOutcome.error = "ParserError"

\* C4: LeafStmt.parse raises ParserError for every node without a `type` child,
\* the key absent or present with an empty list, whatever else the node holds.
C4_LeafWithoutType ==
    (call # None /\ TheCall.name = "LeafStmt.parse"
                 /\ CountOf(TheCall.this, KwType, None) = 0)
        => TheOutcome.error = "ParserError"

\* a leaf with an argument whose only `type` child was popped: the key is there
\* with an empty list, and the parse is refused for the cardinality
C4_Witness ==
    /\ call # None
    /\ TheCall.name = "LeafStmt.parse"
    /\ TheCall.this.argument = Some(TxtX)
    /\ KwType \in DOMAIN TheCall.this.sub_statements
    /\ CountOf(TheCall.this, KwType, None) = 0
    /\ TheOutcome.error = "ParserError"
    /\ TheOutcome.msg = "cardinality error: there should be 1"

-----------------------------------------------------------------------------
(* Properties of the tree parser.                                          *)

\* C5: Parse builds one node per statement written: every statement of a block
\* is added to the node of the block's statement in the order written, the ones
\* that follow a nested block included.
C5_OneNodePerStatement ==
    tree # None =>
        /\ tree[1].kind = "statement"
        /\ tree[1].stmt = Some(NodeOf(written[1]))

-----------------------------------------------------------------------------
(* Properties of the lexer, stated on the results of the getToken calls    *)
(* made so far (out) for the text written.                                 *)

\* the result of a call that returned the token
Gave(tok) == [thrown |-> FALSE, tok |-> tok]

\* C6: on a text of unquoted words and the symbols ";", "{", "}" between
\* whitespace, line comments and block comments, the successive getToken calls
\* return one StringToken per word and one token per symbol, in the order
\* written, and EndOfInputToken after them.
C6_WordsAndSymbols ==
    (written # None /\ written[1] \in WordDocs) =>
        \A i \in 1..Len(out) :
            out[i] = Gave(IF i <= Len(ExpectedTokens(written[1]))
                          THEN ExpectedTokens(written[1])[i]
                          ELSE EndOfInputToken)

\* C7: on a chain of quoted strings q1 + q2 + ... + qn, getToken returns one
\* StringToken whose content is the contents of q1..qn joined in order, empty
\* ones included.
C7_ExactSplicing ==
    (written # None /\ written[1] \in ChainDocs /\ Len(out) >= 1) =>
        out[1] = Gave(StringToken(Joined(written[1])))

\* C8: a "+" that no quoted string follows makes getToken yield a LexerError:
\* before a second "+", before a token that is not a quoted string, and at the
\* end of the input, also when a quoted string came before the "+".
C8_PlusWithoutFragment ==
    (written # None /\ written[1] \in PlusDocs /\ Len(out) >= 1) =>
        out[1].tok.type = "LexerError"

\* C9: a "+" that begins a token and follows no quoted string is the first
\* character of an unquoted string: `min-elements +32;` gives
\* StringToken("min-elements"), StringToken("+32"), StatementEndToken and
\* EndOfInputToken, and no error.
C9_PlusBeginsWord ==
    (written # None /\ written[1] \in PlusWordDocs) =>
        \A i \in 1..Len(out) :
            out[i] = Gave(IF i <= Len(ExpectedTokens(written[1]))
                          THEN ExpectedTokens(written[1])[i]
                          ELSE EndOfInputToken)

\* C10: in a double-quoted string each of \n, \t, \" and \\ contributes exactly
\* one character to the content and the escaped character is not scanned again;
\* any other escaped character is a LexerError.
C10_EscapesOneCharacter ==
    (written # None /\ written[1] \in EscapeDocs /\ Len(out) >= 1) =>
        IF \E i \in 2..(Len(written[1]) - 1) : written[1][i] = <<BS, "x">>
        THEN out[1].tok.type = "LexerError"
        ELSE out[1] = Gave(StringToken(trimSpaces(UnescapedBody(written[1]), 1)))

\* C11: a single-quoted string is lexed as a quoted string whose content is the
\* characters between the opening quote and the next single quote, taken as
\* written (a backslash stays a backslash), and the position of the lexer then
\* stands just after the closing quote; without a closing quote no quoted string
\* is lexed and getToken yields a LexerError.
C11_SingleQuotedLiteral ==
    (written # None /\ written[1] \in SingleQuotedDocs /\ out = <<>>) =>
        IF written[1][1] \in ClosedSingleQuoted
        THEN frame.string_parsed =>
                /\ frame.str = ContentOf(written[1][1])
                /\ lexer.pos >= Len(written[1][1])
        ELSE ~frame.string_parsed

\* the column of the source line at which the last piece of a text begins
ColumnOfLast(d) == LastLineLength(Flat(SubSeq(d, 1, Len(d) - 1)))

\* the call that gives the quoted string written last: one call per word before it
CallOfLast(d) == Cardinality({i \in 1..(Len(d) - 1) : d[i] \in WordPieces}) + 1

\* a line of leading width w, under a quote whose column is the c-th of its line
NormalizedLine(line, c) ==
    LET lead == CountIndent(line, 0, 0)
    IN  Spaces(IF lead.count > c THEN lead.count - c ELSE 0)
            \o TrimEnd(Slice(line, lead.i))

\* C12: every line after the first of a double-quoted string, of leading
\* whitespace width w (a space counts 1, a tab 8), comes out as max(0, w - c)
\* spaces followed by the rest of the line, c being the column at which the
\* opening quote stands on its own source line, the quote's column included.
C12_IndentationNormalized ==
    (written # None /\ written[1] \in IndentDocs
        /\ Len(out) >= CallOfLast(written[1])) =>
        LET d == written[1]
            given == out[CallOfLast(d)]
            lines == SplitLines(ContentOf(d[Len(d)]))
        IN  /\ given.tok.type = "StringToken"
            /\ ~given.thrown
            /\ Len(SplitLines(given.tok.content)) = Len(lines)
            /\ \A k \in 2..Len(lines) :
                    SplitLines(given.tok.content)[k]
                        = NormalizedLine(lines[k], ColumnOfLast(d) + 1)

\* C13: no line of the content of a double-quoted string ends in whitespace, and
\* a double-quoted string of nothing or of whitespace only gives StringToken("")
\* (a token is given, the string is not skipped).
C13_TrailingWhiteSpaceStripped ==
    (written # None /\ written[1] \in TrailingDocs
        /\ Len(out) >= CallOfLast(written[1])) =>
        LET d == written[1]
            given == out[CallOfLast(d)]
        IN  /\ given.tok.type = "StringToken"
            /\ ~given.thrown
            /\ \A k \in 1..Len(SplitLines(given.tok.content)) :
                    TrimEnd(SplitLines(given.tok.content)[k])
                        = SplitLines(given.tok.content)[k]
            /\ d[Len(d)] \in WhiteStrings => given.tok.content = <<>>

-----------------------------------------------------------------------------
(* Properties of the keyword of a statement, stated on the statement       *)
(* written and the node Parse gave (tree).                                 *)

\* the children of a statement written with the keyword k
WrittenAs(st, k) == {i \in 1..Len(st.children) : st.children[i].keyword = k}

\* C14: Parse splits a keyword p:id at its first colon into the prefix p and the
\* identifier id, the text after the colon; a keyword without a colon has no
\* prefix; so the only child written as p:id is kept under the key id:p and
\* takeOne("id", "p") on the parent returns it.
C14_KeywordSplitAtColon ==
    (written # None /\ tree # None /\ tree[1].kind = "statement") =>
        LET st == written[1]
            node == tree[1].stmt[1]
        IN  /\ st.keyword = TxtPA =>
                    /\ node.identifier.content = TxtA
                    /\ node.prefix = Some(<<"p">>)
            /\ st.keyword # TxtPA =>
                    /\ node.identifier.content = st.keyword
                    /\ node.prefix = None
            /\ (Cardinality(WrittenAs(st, TxtPA)) = 1
                    /\ \A i \in 1..Len(st.children) : ~st.children[i].block) =>
                    /\ KeyOf(TxtA, Some(<<"p">>)) \in DOMAIN node.sub_statements
                    /\ takeOne(node, TxtA, Some(<<"p">>)).error = ""
                    /\ takeOne(node, TxtA, Some(<<"p">>)).value[1].identifier.content
                            = TxtA

-----------------------------------------------------------------------------
(* Properties of the typed parsers, stated on the call made (call), the    *)
(* node it was made on and its result (outcome).                           *)

\* the node of a `type` statement of the given name
IsType(this, name) == this.identifier.content = KwType /\ this.argument = Some(name)

\* C15: BooleanTypeStmt.parse on a `type boolean` node and EmptyTypeStmt.parse on
\* a `type empty` node raise ParserError when the node carries a substatement.
C15_TypeWithoutSubstatements ==
    (call # None
        /\ \/ TheCall.name = "BooleanTypeStmt.parse" /\ IsType(TheCall.this, TxtBoolean)
           \/ TheCall.name = "EmptyTypeStmt.parse" /\ IsType(TheCall.this, TxtEmpty)
        /\ ChildCount(TheCall.this) > 0) =>
        TheOutcome.error = "ParserError"

\* the children of a node under an unprefixed keyword
Under(this, keyword) ==
    IF keyword \in DOMAIN this.sub_statements THEN this.sub_statements[keyword] ELSE <<>>

\* a leaf or leaf-list node that is well formed but for the text of its status
\* and ordered-by children: one type child, no child the parser does not know,
\* at most one child per enum, each with an argument and no substatement
EnumsOnly(this, keywords) ==
    /\ DOMAIN this.sub_statements \subseteq {KwType} \cup keywords
    /\ Len(Under(this, KwType)) = 1
    /\ \A k \in keywords : /\ Len(Under(this, k)) <= 1
                            /\ \A j \in 1..Len(Under(this, k)) :
                                    ChildCount(Under(this, k)[j]) = 0

\* what the claim says of one enum field: the default when the child is absent,
\* the variant its argument names, ParserError on any other text
EnumField(this, keyword, variants, default, position) ==
    IF Under(this, keyword) = <<>>
    THEN TheOutcome.error = "" /\ TheOutcome.value[position] = <<default>>
    ELSE IF Under(this, keyword)[1].argument[1] \in variants
    THEN /\ TheOutcome.error = ""
         /\ TheOutcome.value[position] = <<Under(this, keyword)[1].argument[1]>>
    ELSE TheOutcome.error = "ParserError"

\* C16: a leaf or leaf-list parsed without a status child has status current,
\* a leaf-list parsed without an ordered-by child has ordered_by system; a child
\* that is present gives the variant its argument names (current, deprecated,
\* obsolete; system, user) and any other argument text raises ParserError.
C16_StatusAndOrderedBy ==
    /\ (call # None /\ TheCall.name = "LeafStmt.parse"
            /\ TheCall.this.identifier.content = KwLeaf
            /\ EnumsOnly(TheCall.this, {KwStatus})) =>
            EnumField(TheCall.this, KwStatus, StatusStmt, TxtCurrent, 5)
    /\ (call # None /\ TheCall.name = "LeafListStmt.parse"
            /\ TheCall.this.identifier.content = KwLeafList
            /\ EnumsOnly(TheCall.this, {KwStatus, KwOrderedBy})
            /\ Under(TheCall.this, KwOrderedBy) = <<>>) =>
            EnumField(TheCall.this, KwStatus, StatusStmt, TxtCurrent, 7)
    /\ (call # None /\ TheCall.name = "LeafListStmt.parse"
            /\ TheCall.this.identifier.content = KwLeafList
            /\ EnumsOnly(TheCall.this, {KwStatus, KwOrderedBy})
            /\ Under(TheCall.this, KwStatus) = <<>>) =>
            EnumField(TheCall.this, KwOrderedBy, OrderedByStmt, TxtSystem, 6)

\* the integer a numeric text writes, if it writes one
IntegerWritten(text) ==
    CASE text = <<"0">> -> Some(0)
      [] text = <<"1">> -> Some(1)
      [] text = <<"1", "8">> -> Some(18)
      [] text = <<"1", "9">> -> Some(19)
      [] text = <<"-", "1">> -> Some(-1)
      [] OTHER -> None

\* a `type decimal64` node with nothing but fraction-digits and range children
Decimal64Node(this) ==
    /\ IsType(this, TxtDecimal64)
    /\ DOMAIN this.sub_statements \subseteq {KwFractionDigits, KwRange}
    /\ Len(Under(this, KwRange)) <= 1

\* C17: Decimal64TypeStmt.parse requires exactly one fraction-digits child and
\* accepts it iff its text is an integer v with 1 <= v <= 18, which is then
\* stored as fraction_digits; 0, 19, every other integer and every text that is
\* no integer raise ParserError.
C17_FractionDigitsRange ==
    (call # None /\ TheCall.name = "Decimal64TypeStmt.parse"
        /\ Decimal64Node(TheCall.this)) =>
        LET digits == Under(TheCall.this, KwFractionDigits)
            v == IntegerWritten(digits[1].argument[1])
        IN  IF Len(digits) = 1 /\ v # None /\ 1 <= v[1] /\ v[1] <= 18
            THEN TheOutcome.error = "" /\ TheOutcome.value[1] = v
            ELSE TheOutcome.error = "ParserError"

C17_Witness ==
    /\ call # None /\ TheCall.name = "Decimal64TypeStmt.parse"
    /\ Decimal64Node(TheCall.this)
    /\ Len(Under(TheCall.this, KwFractionDigits)) = 1
    /\ Under(TheCall.this, KwFractionDigits)[1].argument = Some(<<"1", "8">>)
    /\ Len(Under(TheCall.this, KwRange)) = 1
    /\ TheOutcome.error = ""
    /\ TheOutcome.value[1] = <<18>>

\* what the claim says of a substatement that holds a non-negative integer:
\* ParserError when the integer written is negative, the integer otherwise
NotNegativeField(this, keyword, position) ==
    LET v == IntegerWritten(Under(this, keyword)[1].argument[1])
    IN  IF v[1] < 0 THEN TheOutcome.error = "ParserError"
        ELSE TheOutcome.error = "" /\ TheOutcome.value[position] = v

\* a leaf-list node with one type child and one child of the keyword, no other
CountedLeafList(this, keyword) ==
    /\ this.identifier.content = KwLeafList
    /\ DOMAIN this.sub_statements = {KwType, keyword}
    /\ Len(Under(this, KwType)) = 1
    /\ Len(Under(this, keyword)) = 1

\* C18: a negative position on a bit statement, and a negative min-elements or
\* max-elements on a leaf-list, raise ParserError; 0 and the positive integers
\* are accepted and stored.
C18_NegativeRejected ==
    /\ (call # None /\ TheCall.name = "BitStmt.parse"
            /\ TheCall.this.identifier.content = KwBit
            /\ DOMAIN TheCall.this.sub_statements = {KwPosition}
            /\ Len(Under(TheCall.this, KwPosition)) = 1) =>
            NotNegativeField(TheCall.this, KwPosition, 4)
    /\ (call # None /\ TheCall.name = "LeafListStmt.parse"
            /\ CountedLeafList(TheCall.this, KwMinElements)) =>
            NotNegativeField(TheCall.this, KwMinElements, 11)
    /\ (call # None /\ TheCall.name = "LeafListStmt.parse"
            /\ CountedLeafList(TheCall.this, KwMaxElements)) =>
            NotNegativeField(TheCall.this, KwMaxElements, 12)

\* the built-in type identifiers that have a parser of their own
ConcreteTypes == {TxtBinary, TxtBits, TxtBoolean, TxtDecimal64, TxtEmpty, TxtEnumeration}

\* what the parser of a built-in type gives on a node; the node of an
\* enumeration is taken without substatements
ParserOf(name, this) ==
    CASE name = TxtBinary -> BinaryTypeStmtParse(this)
      [] name = TxtBits -> BitTypeStmtParse(this)
      [] name = TxtBoolean -> BooleanTypeStmtParse(this)
      [] name = TxtDecimal64 -> Decimal64TypeStmtParse(this)
      [] name = TxtEmpty -> EmptyTypeStmtParse(this)
      [] name = TxtEnumeration ->
            Ok([this EXCEPT !.argument = None], << <<>> >>)

\* a type node whose substatements are valid for the type its argument names
ValidTypeNode(this) ==
    /\ this.identifier.content = KwType
    /\ this.argument # None
    /\ this.argument[1] \in ConcreteTypes
    /\ this.argument[1] = TxtEnumeration => ChildCount(this) = 0
    /\ ParserOf(this.argument[1], this).error = ""

\* C21: on a type node whose argument names a built-in type that has a parser
\* (binary, bits, boolean, decimal64, empty, enumeration) and whose
\* substatements are valid for it, parseTypeStmt returns the typed statement
\* of that parser, a TypeStmt whose typeIdentifier() is the argument; the
\* dispatch leaves the argument for the parser; any other argument reaches a
\* branch that returns nothing and leaves the node as it was.
C21_TypeDispatch ==
    (call # None /\ TheCall.name = "TypeStmt.parseTypeStmt"
        /\ TheCall.this.identifier.content = KwType /\ TheCall.this.argument # None) =>
        /\ ValidTypeNode(TheCall.this) =>
                /\ TheOutcome.error = ""
                /\ TheOutcome.value
                        = TypeStmtOf(TheCall.this.argument[1],
                                     ParserOf(TheCall.this.argument[1], TheCall.this).value)
                /\ unp = ParserOf(TheCall.this.argument[1], TheCall.this).this
        /\ TheCall.this.argument[1] \notin ConcreteTypes =>
                /\ TheOutcome.error = ""
                /\ TheOutcome.value = Undefined
                /\ unp = TheCall.this

\* the children of a node under the key of a descriptor, in the order added
ChildrenFor(this, v) ==
    LET stmts == MapGet(this.sub_statements, KeyOf(v.idenfitier, v.prefix))
    IN  IF stmts = None THEN <<>> ELSE stmts[1]

\* the values of the children of a descriptor, one per child, in the order added
ValuesFor(this, v) ==
    [j \in 1..Len(ChildrenFor(this, v)) |->
        ApplyParseFunc(v.parseFunc, ChildrenFor(this, v)[j]).value]

NoArgument(this) == this.argument = None \/ this.argument = Some(<<>>)

\* C23: the argument of a node is consumed at most once.  argumentOrError
\* returns the argument and clears it, so that the same call made again right
\* away raises ParserError; on a node whose argument is absent or the empty
\* string it raises ParserError and leaves the node as it was.  MustStmt.parse
\* on a must node without argument raises ParserError.
C23_ArgumentTakenOnce ==
    /\ (call # None /\ TheCall.name = "argumentOrError" /\ ~NoArgument(TheCall.this)) =>
            /\ TheOutcome.error = ""
            /\ TheOutcome.value = TheCall.this.argument[1]
            /\ unp = [TheCall.this EXCEPT !.argument = None]
            /\ argumentOrError(unp).error = "ParserError"
    /\ (call # None /\ TheCall.name = "argumentOrError" /\ NoArgument(TheCall.this)) =>
            /\ TheOutcome.error = "ParserError"
            /\ unp = TheCall.this
    /\ (call # None /\ TheCall.name = "MustStmt.parse" /\ TheCall.this.argument = None) =>
            TheOutcome.error = "ParserError"

\* the argument x of a node with two children was returned and cleared
C23_Witness ==
    /\ call # None /\ TheCall.name = "argumentOrError"
    /\ TheCall.this.argument = Some(TxtX) /\ ChildCount(TheCall.this) = 2
    /\ TheOutcome.error = "" /\ TheOutcome.value = TxtX /\ unp.argument = None

\* the contents of the quoted strings written before the quoted string "b"
RECURSIVE JoinedBeforeB(_)
JoinedBeforeB(d) ==
    IF d = <<>> \/ Head(d) = QuotedB THEN <<>>
    ELSE IF Head(d)[1] = DQ THEN ContentOf(Head(d)) \o JoinedBeforeB(Tail(d))
    ELSE JoinedBeforeB(Tail(d))

\* C24: two quoted strings that follow each other without a "+" are neither
\* joined nor lost: the getToken during which the second arrives returns the
\* fragment accumulated so far as a StringToken, also when that fragment is the
\* empty string, and the next getToken returns a StringToken with the content
\* of the second string.
C24_NoSilentConcatenation ==
    (written # None /\ written[1] \in AdjacentDocs) =>
        /\ Len(out) >= 1 => out[1] = Gave(StringToken(JoinedBeforeB(written[1])))
        /\ Len(out) >= 2 => out[2] = Gave(StringToken(ContentOf(QuotedB)))

\* C25: the leading whitespace of the first line of a double-quoted string, the
\* characters right after the opening quote, is kept as written in the content
\* of the token, at whatever column the opening quote stands: only the lines
\* after the first are normalised.
C25_FirstLineKept ==
    (written # None /\ written[1] \in LeadingDocs
        /\ Len(out) >= CallOfLast(written[1])) =>
        LET d == written[1]
            given == out[CallOfLast(d)]
        IN  /\ given.tok.type = "StringToken"
            /\ ~given.thrown
            /\ SplitLines(given.tok.content)[1] = SplitLines(ContentOf(d[Len(d)]))[1]

\* the orders in which n descriptors can be declared
Orders(n) == {p \in [1..n -> 1..n] : \A i, j \in 1..n : p[i] = p[j] => i = j}

\* the descriptors declared in the order p
Reordered(take_params, p) == [i \in 1..Len(take_params) |-> take_params[p[i]]]

\* C26: the order in which descriptors are declared does not matter.  For
\* descriptors with pairwise distinct keys, takeAll on the same node with the
\* descriptors in any other order succeeds or fails alike, and on success each
\* descriptor gets the same value at its own position: the conversions of
\* exactly the children stored under its key.
C26_OrderIrrelevant ==
    (call # None /\ TheCall.name = "takeAll"
        /\ Cardinality(ParamKeys(TheCall.take_params)) = Len(TheCall.take_params)) =>
        /\ TheOutcome.error = "" =>
                \A i \in DOMAIN TheCall.take_params :
                    TheOutcome.value[i] = ValuesFor(TheCall.this, TheCall.take_params[i])
        /\ \A p \in Orders(Len(TheCall.take_params)) :
                LET r == takeAll(TheCall.this, Reordered(TheCall.take_params, p))
                IN  /\ (r.error = "") = (TheOutcome.error = "")
                    /\ r.error = "" =>
                            /\ r.this = unp
                            /\ \A i \in DOMAIN TheCall.take_params :
                                    r.value[i] = TheOutcome.value[p[i]]

\* three descriptors each got a child: a type, an if-feature, a description
C26_Witness ==
    /\ call # None /\ TheCall.name = "takeAll" /\ TheOutcome.error = ""
    /\ Len(TheCall.take_params) = 3
    /\ TheOutcome.value = << <<Stmt(KwType, TxtX)>>, <<TxtQ>>, <<TxtQ>> >>

\* the whitespace run at which the lexer stands
RunAhead(lx) ==
    Slice2(Slice(lx.input, lx.pos), 0, WhiteSpaceRun(Slice(lx.input, lx.pos), 0))

\* the next pass of getToken scans a whitespace run that holds a newline
ScansNewLines ==
    /\ pc = "loop"
    /\ len(lexer) > 0
    /\ IsWhiteSpace(lexer.input[lexer.pos + 1])
    /\ NewLines(RunAhead(lexer)) >= 1

\* C27: when the lexer scans a whitespace run that holds at least one newline,
\* its column afterwards is the number of characters that follow the last
\* newline of the run, whatever the column was before, and its row has grown
\* by the number of newlines of the run.
C27_NewLineResetsColumn ==
    [][ScansNewLines =>
            /\ lexer'.col = LastLineLength(RunAhead(lexer))
            /\ lexer'.row = lexer.row + NewLines(RunAhead(lexer))]_vars

\* the kinds of value getToken is to return
SemanticTokens ==
    {"StringToken", "BlockBeginToken", "BlockEndToken", "StatementEndToken",
     "EndOfInputToken", "LexerError"}

\* C28: every value a getToken call returns is a StringToken, BlockBeginToken,
\* BlockEndToken, StatementEndToken, EndOfInputToken or a LexerError: the raw
\* units WhiteSpaceToken, CommentToken, PlusToken and QuotedStringToken never
\* reach the caller, neither directly nor through the one-slot pushback buffer.
C28_OnlySemanticTokens ==
    \A i \in 1..Len(out) : ~out[i].thrown => out[i].tok.type \in SemanticTokens

\* EndOfInputToken, once returned, is returned by every later call
EndOfInputStays ==
    \A i \in 1..(Len(out) - 1) :
        out[i] = Gave(EndOfInputToken) => out[i + 1] = Gave(EndOfInputToken)

\* C29: after any getToken calls on any text the position of the lexer lies
\* within the text, 0 <= pos <= input.length; so a text that ends in a line
\* comment without a newline leads to EndOfInputToken and to no exception, and
\* once EndOfInputToken was returned every later getToken returns it again.
C29_PositionWithinInput ==
    /\ 0 <= lexer.pos /\ lexer.pos <= Len(lexer.input)
    /\ \A i \in 1..Len(out) : out[i].tok.type # "TypeError"
    /\ EndOfInputStays

\* texts without a lexical error: words and symbols with their whitespace and
\* comments, and a closed single-quoted string with what follows it
ErrorFreeDocs ==
    WordDocs \cup {d \in SingleQuotedDocs : d[1] \in ClosedSingleQuoted}

\* C30: every getToken call terminates: the loop of a running call reaches a
\* return after finitely many scans; and on a text without lexical errors,
\* texts with single-quoted strings included, the repeated calls eventually
\* return EndOfInputToken.
C30_GetTokenTerminates ==
    /\ (pc = "loop") ~> (pc = "idle")
    /\ (written # None /\ written[1] \in ErrorFreeDocs)
            ~> (\E i \in 1..Len(out) : out[i] = Gave(EndOfInputToken))

-----------------------------------------------------------------------------
(* Properties of LengthRestriction, stated on the segments written and on  *)
(* what the constructor gave (outcome).                                    *)

WellFormed(segments) == \A i \in 1..Len(segments) : segments[i].bounds # None

\* the LengthRange a well-formed segment writes
RangeWritten(segment) ==
    [lower_bound |-> segment.bounds[1][1], upper_bound |-> segment.bounds[1][2]]

\* C19: for a well-formed restriction text, LengthRestriction yields one
\* LengthRange per segment between "|", in order: a..b gives lower_bound a and
\* upper_bound b, whitespace around each side ignored, and a bare number n gives
\* lower_bound = upper_bound = n.
C19_OneRangePerSegment ==
    (written # None /\ outcome # None /\ WellFormed(written[1])) =>
        /\ TheOutcome.error = ""
        /\ TheOutcome.value.rules
                = [i \in 1..Len(written[1]) |-> RangeWritten(written[1][i])]

C19_Witness ==
    /\ written # None /\ outcome # None
    /\ doc = <<"5", ".", ".", "1", "2", "|", "0">>
    /\ TheOutcome.error = ""
    /\ TheOutcome.value.rules
            = << [lower_bound |-> 5, upper_bound |-> 12],
                 [lower_bound |-> 0, upper_bound |-> 0] >>

\* C20: constructing a LengthRestriction raises ParserError whenever some
\* segment is not one non-negative integer or two non-negative integers joined
\* by "..": a missing bound, an empty segment, a third bound, a negative number
\* or a number that is no integer.
C20_MalformedRejected ==
    (written # None /\ outcome # None /\ ~WellFormed(written[1])) =>
        TheOutcome.error = "ParserError"

====
